---- MODULE Spec2Model ----
(***************************************************************************)
(* A model of the fin-agent chat route: the agentic tool loop of POST      *)
(* (app/api/chat/route.ts and its two predecessors), the tool executor and *)
(* the tool result processor (app/api/chat/tool-executor.ts), and the      *)
(* server-sent-event stream that closes a request.                         *)
(***************************************************************************)
EXTENDS Integers, Sequences, FiniteSets, TLC

(***************************************************************************)
(* JavaScript values.  A value is a record tagged by t; an object carries  *)
(* its own properties as a function f from property names to values.       *)
(***************************************************************************)
Undef == [t |-> "undefined"]
Null == [t |-> "null"]
Str(s) == [t |-> "string", s |-> s]
Bool(b) == [t |-> "boolean", b |-> b]
Num(n) == [t |-> "number", n |-> n]
Arr(items) == [t |-> "array", items |-> items]
Obj(f) == [t |-> "object", f |-> f]

\* Array.isArray(v)
IsArray(v) == v.t = "array"

\* typeof v === 'object' && v !== null  (arrays are objects)
IsObject(v) == v.t \in {"object", "array"}

\* the own enumerable properties of a value, as {...v} copies them
Props(v) ==
  CASE v.t = "object" -> v.f
    [] v.t = "array" -> [k \in {ToString(i - 1) : i \in 1..Len(v.items)} |->
                           LET i == CHOOSE j \in 1..Len(v.items) : ToString(j - 1) = k
                           IN v.items[i]]
    [] OTHER -> [k \in {} |-> Undef]

\* v.name : undefined when the property is absent
Prop(v, name) == IF name \in DOMAIN Props(v) THEN Props(v)[name] ELSE Undef

\* JavaScript truthiness
Truthy(v) ==
  CASE v.t \in {"undefined", "null"} -> FALSE
    [] v.t = "string" -> v.s # ""
    [] v.t = "boolean" -> v.b
    [] v.t = "number" -> v.n # 0
    [] OTHER -> TRUE

\* a || b
OrElse(a, b) == IF Truthy(a) THEN a ELSE b

\* `${v}` for the values the templates interpolate
Text(v) ==
  CASE v.t = "string" -> v.s
    [] v.t = "number" -> ToString(v.n)
    [] v.t = "undefined" -> "undefined"
    [] v.t = "null" -> "null"
    [] OTHER -> "[object Object]"

\* { ...base, ...extra } : later properties win
Spread(base, extra) == Obj(extra @@ Props(base))

\* JSON.stringify drops the properties whose value is undefined
RECURSIVE Serialize(_)
Serialize(v) ==
  CASE v.t = "object" ->
         Obj([k \in {n \in DOMAIN v.f : v.f[n].t # "undefined"} |-> Serialize(v.f[k])])
    [] v.t = "array" ->
         Arr([i \in 1..Len(v.items) |->
                IF v.items[i].t = "undefined" THEN Null ELSE Serialize(v.items[i])])
    [] OTHER -> v

(***************************************************************************)
(* The data provider client (lib/fmp_client.ts).  A reply is what the      *)
(* network gives back to one GET.                                          *)
(***************************************************************************)
HttpOk(body) == [kind |-> "ok", body |-> body]
HttpStatus == [kind |-> "status"]
NetworkError == [kind |-> "network"]

\* fmpClient.get: the parsed body, or an error-shaped object; it never throws
get(reply) ==
  IF reply.kind = "ok"
  THEN reply.body
  ELSE Obj([error |-> Str("Failed to fetch from FMP API: " \o reply.kind)])

(***************************************************************************)
(* Tool calls as the planner returns them: an id, a function name and the  *)
(* arguments as JSON text.                                                 *)
(***************************************************************************)
QueryJson == "{\"query\":\"Spotify\"}"
SymbolJson == "{\"symbol\":\"SPOT\"}"
GrowthJson == "{\"symbol\":\"SPOT\",\"metric\":\"revenue\",\"years\":[5]}"
StatementJson == "{\"symbol\":\"SPOT\",\"statement\":\"income\"}"
SymbolsJson == "{\"symbols\":[\"SPOT\"],\"topic\":\"margin\"}"
TruncatedJson == "{\"query\":\"Spot"

\* JSON.parse(toolCall.function.arguments): throws a SyntaxError on text that is
\* not JSON
JSONParse(text) ==
  CASE text = QueryJson -> [threw |-> FALSE, value |-> Obj([query |-> Str("Spotify")])]
    [] text = SymbolJson -> [threw |-> FALSE, value |-> Obj([symbol |-> Str("SPOT")])]
    [] text = GrowthJson ->
         [threw |-> FALSE,
          value |-> Obj([symbol |-> Str("SPOT"), metric |-> Str("revenue"),
                         years |-> Arr(<<Num(5)>>)])]
    [] text = StatementJson ->
         [threw |-> FALSE,
          value |-> Obj([symbol |-> Str("SPOT"), statement |-> Str("income")])]
    [] text = SymbolsJson ->
         [threw |-> FALSE,
          value |-> Obj([symbols |-> Arr(<<Str("SPOT")>>), topic |-> Str("margin")])]
    [] OTHER -> [threw |-> TRUE, value |-> Undef]

PUBLIC_API_KEY == "demo"
FmpStable == "https://financialmodelingprep.com/stable"

\* the percent escapes of the reserved characters the modelled values contain
Escapes ==
  (" " :> "%20") @@ ("&" :> "%26") @@ ("," :> "%2C") @@ ("+" :> "%2B")
    @@ ("=" :> "%3D") @@ ("#" :> "%23")

\* the i-th character of a string
At(s, i) == SubSeq(s, i, i)

\* encodeURIComponent, on the characters the modelled values contain
encodeURIComponent(s) ==
  LET encoded[i \in 0..Len(s)] ==
        IF i = 0 THEN ""
        ELSE encoded[i - 1]
               \o (IF At(s, i) \in DOMAIN Escapes THEN Escapes[At(s, i)] ELSE At(s, i))
  IN encoded[Len(s)]

\* the application/x-www-form-urlencoded serializer of URLSearchParams: as
\* above, with "+" for a space
FormEncode(s) ==
  LET encoded[i \in 0..Len(s)] ==
        IF i = 0 THEN ""
        ELSE encoded[i - 1]
               \o (IF At(s, i) = " " THEN "+"
                   ELSE IF At(s, i) \in DOMAIN Escapes THEN Escapes[At(s, i)]
                   ELSE At(s, i))
  IN encoded[Len(s)]

\* the character an escape stands for
Unescape(escape) ==
  IF \E c \in DOMAIN Escapes : Escapes[c] = escape
  THEN CHOOSE c \in DOMAIN Escapes : Escapes[c] = escape
  ELSE escape

\* the decoding a reader of a query string applies to a name or a value
FormDecode(s) ==
  LET decoded[i \in 0..Len(s)] ==
        IF i = 0 THEN ""
        ELSE IF At(s, i) = "%" /\ i + 2 <= Len(s) THEN decoded[i - 1]
        ELSE IF i >= 2 /\ At(s, i - 1) = "%" /\ i + 1 <= Len(s) THEN decoded[i - 1]
        ELSE IF i >= 3 /\ At(s, i - 2) = "%"
          THEN decoded[i - 1] \o Unescape(SubSeq(s, i - 2, i))
        ELSE IF At(s, i) = "+" THEN decoded[i - 1] \o " "
        ELSE decoded[i - 1] \o At(s, i)
  IN decoded[Len(s)]

\* where a character first stands in a string, 0 when it does not
IndexOf(s, c) ==
  IF \E i \in 1..Len(s) : At(s, i) = c
  THEN CHOOSE i \in 1..Len(s) : At(s, i) = c /\ \A j \in 1..(i - 1) : At(s, j) # c
  ELSE 0

\* s.split(c)
Split(s, c) ==
  LET cuts == {i \in 1..Len(s) : At(s, i) = c}
      cut(k) == IF k = 0 THEN 0
                ELSE IF k > Cardinality(cuts) THEN Len(s) + 1
                ELSE CHOOSE i \in cuts : Cardinality({j \in cuts : j <= i}) = k
  IN [k \in 1..(Cardinality(cuts) + 1) |-> SubSeq(s, cut(k - 1) + 1, cut(k) - 1)]

\* a URL as its reader takes it apart: the address before the "?", and the
\* pairs of the query, which ends at a "#"
Address(url) ==
  IF IndexOf(url, "?") = 0 THEN url ELSE SubSeq(url, 1, IndexOf(url, "?") - 1)

QueryPairs(url) ==
  LET whole == IF IndexOf(url, "?") = 0 THEN ""
               ELSE SubSeq(url, IndexOf(url, "?") + 1, Len(url))
      query == IF IndexOf(whole, "#") = 0 THEN whole
               ELSE SubSeq(whole, 1, IndexOf(whole, "#") - 1)
      pieces == SelectSeq(Split(query, "&"), LAMBDA piece : piece # "")
  IN [k \in 1..Len(pieces) |->
        LET eq == IndexOf(pieces[k], "=")
        IN IF eq = 0 THEN [name |-> FormDecode(pieces[k]), value |-> ""]
           ELSE [name |-> FormDecode(SubSeq(pieces[k], 1, eq - 1)),
                 value |-> FormDecode(SubSeq(pieces[k], eq + 1, Len(pieces[k])))]]

\* Math.max(...(toolArgs.years || [10])) + 1
GrowthLimit(toolArgs) ==
  LET years == OrElse(Prop(toolArgs, "years"), Arr(<<Num(10)>>))
      ns == {years.items[i].n : i \in 1..Len(years.items)}
  IN (CHOOSE m \in ns : \A n \in ns : n <= m) + 1

\* Array.isArray(symbols) ? symbols.join(',') : symbols
Join(items, sep) ==
  LET joined[i \in 0..Len(items)] ==
        IF i = 0 THEN ""
        ELSE IF i = 1 THEN Text(items[1])
        ELSE joined[i - 1] \o sep \o Text(items[i])
  IN joined[Len(items)]

SymbolsString(toolArgs) ==
  LET symbols == Prop(toolArgs, "symbols")
  IN IF IsArray(symbols) THEN Join(symbols.items, ",") ELSE Text(symbols)

\* a destructuring default: const { period = 'annual' } = toolArgs
Defaulted(v, d) == IF v.t = "undefined" THEN d ELSE v

\* the provenance URL each case of the executor switch builds
SourceUrl(toolName, toolArgs) ==
  LET sym == Text(Prop(toolArgs, "symbol"))
      key == "&apikey=" \o PUBLIC_API_KEY
  IN CASE toolName = "resolveSymbol" ->
            FmpStable \o "/search-name?query="
              \o encodeURIComponent(Text(Prop(toolArgs, "query"))) \o "&limit=10" \o key
       [] toolName = "listTranscriptDates" ->
            FmpStable \o "/earning-call-transcript-dates?symbol=" \o sym \o key
       [] toolName = "getTranscript" ->
            FmpStable \o "/earning-call-transcript?symbol=" \o sym
              \o "&year=" \o Text(Prop(toolArgs, "year"))
              \o "&quarter=" \o Text(Prop(toolArgs, "quarter")) \o key
       [] toolName = "getStatement" ->
            FmpStable \o "/" \o Text(Prop(toolArgs, "statement")) \o "-statement?symbol="
              \o sym \o "&period=" \o Text(Defaulted(Prop(toolArgs, "period"), Str("annual")))
              \o "&limit=" \o Text(Defaulted(Prop(toolArgs, "limit"), Num(5))) \o key
       [] toolName = "getFinancialGrowth" ->
            FmpStable \o "/financial-growth?symbol=" \o sym
              \o "&period=" \o Text(OrElse(Prop(toolArgs, "period"), Str("annual")))
              \o "&limit=" \o ToString(GrowthLimit(toolArgs)) \o key
       [] toolName = "getKeyMetrics" ->
            FmpStable \o "/key-metrics?symbol=" \o sym \o "&period=annual&limit="
              \o Text(OrElse(Prop(toolArgs, "limit"), Num(5))) \o key
       [] toolName = "searchNews" ->
            FmpStable \o "/news/stock?symbols=" \o SymbolsString(toolArgs)
              \o "&limit=" \o Text(OrElse(Prop(toolArgs, "limit"), Num(20))) \o key
       [] toolName = "getQuote" -> FmpStable \o "/quote?symbol=" \o sym \o key
       [] OTHER -> "Unknown tool"

\* searchTranscripts of tool-executor.ts: the dates endpoint for one symbol,
\* the documentation page for several
ExecutorSearchUrl(toolArgs) ==
  LET given == Prop(toolArgs, "symbols")
      symbolsForUrl == IF IsArray(given) THEN given.items ELSE <<given>>
  IN IF Len(symbolsForUrl) = 1
     THEN FmpStable \o "/earning-call-transcript-dates?symbol=" \o Text(symbolsForUrl[1])
            \o "&apikey=" \o PUBLIC_API_KEY
     ELSE "https://financialmodelingprep.com/developer/docs/stable/earnings-transcript-list"

\* searchTranscripts of route.ts: a description in place of a URL
RouteSearchUrl(toolArgs) ==
  LET given == Prop(toolArgs, "symbols")
      symbols == IF IsArray(given) THEN given.items ELSE <<given>>
  IN "Multi-transcript search across " \o Join(symbols, ", ") \o " for \""
       \o Text(OrElse(Prop(toolArgs, "topic"), Str(""))) \o "\""

\* the tools whose case performs exactly one fmpClient.get
FetchTools ==
  {"resolveSymbol", "listTranscriptDates", "getTranscript", "getStatement",
   "getFinancialGrowth", "getKeyMetrics", "searchNews", "getQuote"}

\* the names of lib/fmp_tools.ts
Registry == FetchTools \cup {"searchTranscripts"}

Param(key, value) == [key |-> key, value |-> value]

\* the endpoint and the parameters each case of the executor switch hands to
\* fmpClient.get
ToolRequest(toolName, toolArgs) ==
  LET symbol == Param("symbol", Prop(toolArgs, "symbol"))
  IN CASE toolName = "resolveSymbol" ->
            [endpoint |-> "/search-name",
             params |-> <<Param("query", Prop(toolArgs, "query")),
                          Param("limit", Str("10"))>>]
       [] toolName = "listTranscriptDates" ->
            [endpoint |-> "/earning-call-transcript-dates", params |-> <<symbol>>]
       [] toolName = "getTranscript" ->
            [endpoint |-> "/earning-call-transcript",
             params |-> <<symbol, Param("year", Prop(toolArgs, "year")),
                          Param("quarter", Prop(toolArgs, "quarter"))>>]
       [] toolName = "getStatement" ->
            [endpoint |-> "/" \o Text(Prop(toolArgs, "statement")) \o "-statement",
             params |-> <<symbol,
                          Param("period", Defaulted(Prop(toolArgs, "period"), Str("annual"))),
                          Param("limit",
                                Str(Text(Defaulted(Prop(toolArgs, "limit"), Num(5)))))>>]
       [] toolName = "getFinancialGrowth" ->
            [endpoint |-> "/financial-growth",
             params |-> <<symbol,
                          Param("period", OrElse(Prop(toolArgs, "period"), Str("annual"))),
                          Param("limit", Str(ToString(GrowthLimit(toolArgs))))>>]
       [] toolName = "getKeyMetrics" ->
            [endpoint |-> "/key-metrics",
             params |-> <<symbol, Param("period", Str("annual")),
                          Param("limit", Str(Text(OrElse(Prop(toolArgs, "limit"), Num(5)))))>>]
       [] toolName = "searchNews" ->
            [endpoint |-> "/news/stock",
             params |-> <<Param("symbols", Str(SymbolsString(toolArgs))),
                          Param("limit", Str(Text(OrElse(Prop(toolArgs, "limit"), Num(20)))))>>]
       [] toolName = "getQuote" -> [endpoint |-> "/quote", params |-> <<symbol>>]

(***************************************************************************)
(* The tool executor.  reply is the network's answer to the one GET a      *)
(* fetch tool performs; fetches counts the calls made to fmpClient.get.    *)
(* (searchTranscripts, which fans out over several GETs, is not requested  *)
(* by the planner scripts below.)                                          *)
(***************************************************************************)
\* what the getFinancialGrowth case of route.ts makes of the rows
GrowthResult(toolArgs, growthData) ==
  Obj([symbol |-> Prop(toolArgs, "symbol"),
       metric |-> Prop(toolArgs, "metric"),
       requestedYears |-> Prop(toolArgs, "years"),
       rawData |-> growthData])

\* the switch inlined in POST (route.ts, and unchanged in its predecessor)
routeExecute(toolName, toolArgs, reply) ==
  CASE toolName = "getFinancialGrowth" ->
         [sourceUrl |-> SourceUrl(toolName, toolArgs),
          toolResult |-> GrowthResult(toolArgs, get(reply)),
          fetches |-> 1]
    [] toolName \in FetchTools \ {"getFinancialGrowth"} ->
         [sourceUrl |-> SourceUrl(toolName, toolArgs),
          toolResult |-> get(reply),
          fetches |-> 1]
    [] OTHER ->
         [sourceUrl |-> "Unknown tool",
          toolResult |-> Obj([error |-> Str("Unknown tool: " \o toolName)]),
          fetches |-> 0]

\* executeTool of tool-executor.ts
executeTool(toolName, toolArgs, reply) ==
  CASE toolName \in FetchTools ->
         [sourceUrl |-> SourceUrl(toolName, toolArgs),
          toolResult |-> get(reply),
          fetches |-> 1]
    [] OTHER ->
         [sourceUrl |-> "Unknown tool",
          toolResult |-> Obj([error |-> Str("Unknown tool: " \o toolName)]),
          fetches |-> 0]

(***************************************************************************)
(* The tool result processor.                                              *)
(***************************************************************************)
usExchanges == {"NASDAQ", "NYSE", "AMEX"}

\* r.symbol.includes('.')
IncludesDot(s) == \E i \in 1..Len(s) : SubSeq(s, i, i) = "."

\* the first candidate taken whatever its listing
FirstCandidate(items) == items[1]

\* toolResult.find(us exchange, USD, no dot) || toolResult[0]
BestResult(items) ==
  LET good(r) == /\ Text(Prop(r, "exchange")) \in usExchanges
                 /\ Prop(r, "currency") = Str("USD")
                 /\ ~IncludesDot(Text(Prop(r, "symbol")))
      hits == {i \in 1..Len(items) : good(items[i])}
  IN IF hits = {} THEN items[1]
     ELSE items[CHOOSE i \in hits : \A j \in hits : i <= j]

\* an empty candidate list reported as an error
ResolveSymbolStrict(toolResult, toolArgs, sourceUrl) ==
  IF IsArray(toolResult) /\ Len(toolResult.items) > 0
  THEN LET bestResult == BestResult(toolResult.items)
       IN Obj([query |-> Prop(toolArgs, "query"),
               found |-> Bool(TRUE),
               ticker |-> Prop(bestResult, "symbol"),
               sourceUrl |-> Str(sourceUrl),
               toolDescription |-> Str("Company Search")])
  ELSE Obj([query |-> Prop(toolArgs, "query"),
            found |-> Bool(FALSE),
            error |-> Str("No ticker symbol found"),
            sourceUrl |-> Str(sourceUrl),
            toolDescription |-> Str("Company Search")])

ResolveSymbolResult(toolResult, toolArgs, sourceUrl) ==
  IF IsArray(toolResult) /\ Len(toolResult.items) > 0
  THEN LET bestResult == BestResult(toolResult.items)
       IN Obj([query |-> Prop(toolArgs, "query"),
               found |-> Bool(TRUE),
               ticker |-> Prop(bestResult, "symbol"),
               companyName |-> Prop(bestResult, "name"),
               exchange |-> Prop(bestResult, "exchange"),
               currency |-> Prop(bestResult, "currency"),
               sourceUrl |-> Str(sourceUrl),
               toolDescription |-> Str("Company Search"),
               message |-> Str("Found ticker symbol: " \o Text(Prop(bestResult, "symbol"))
                                 \o " for " \o Text(Prop(bestResult, "name"))
                                 \o " on " \o Text(Prop(bestResult, "exchange")))])
  ELSE Obj([query |-> Prop(toolArgs, "query"),
            found |-> Bool(FALSE),
            sourceUrl |-> Str(sourceUrl),
            toolDescription |-> Str("Company Search"),
            message |-> Str("No ticker symbol found for \""
                              \o Text(Prop(toolArgs, "query")) \o "\"")])

StatementLabel(statement) ==
  CASE Text(statement) = "income" -> "Income Statement API"
    [] Text(statement) = "balance-sheet" -> "Balance Sheet API"
    [] Text(statement) = "cash-flow" -> "Cash Flow API"
    [] OTHER -> "Financial Statement API"

StatementResult(toolResult, toolArgs, sourceUrl) ==
  IF IsArray(toolResult) /\ Len(toolResult.items) > 0
  THEN Obj([symbol |-> Prop(toolArgs, "symbol"),
            statementType |-> Prop(toolArgs, "statement"),
            period |-> OrElse(Prop(toolArgs, "period"), Str("annual")),
            recordsFound |-> Num(Len(toolResult.items)),
            mostRecentPeriod |-> toolResult.items[1],
            allPeriods |-> Arr(SubSeq(toolResult.items, 1,
                                      IF Len(toolResult.items) < 3
                                      THEN Len(toolResult.items) ELSE 3)),
            sourceUrl |-> Str(sourceUrl),
            toolDescription |-> Str(StatementLabel(Prop(toolArgs, "statement")))])
  ELSE Obj([symbol |-> Prop(toolArgs, "symbol"),
            statementType |-> Prop(toolArgs, "statement"),
            sourceUrl |-> Str(sourceUrl),
            toolDescription |-> Str("Financial Statement API"),
            error |-> Str("No financial statements found")])

Provenance(sourceUrl, label) ==
  [sourceUrl |-> Str(sourceUrl), toolDescription |-> Str(label)]

\* the last element flattened in place of the first
QuoteLast(toolResult, sourceUrl) ==
  IF IsArray(toolResult) /\ Len(toolResult.items) > 0
  THEN Spread(toolResult.items[Len(toolResult.items)],
              Provenance(sourceUrl, "Stock Quote API"))
  ELSE toolResult

QuoteResult(toolResult, sourceUrl) ==
  IF IsArray(toolResult) /\ Len(toolResult.items) > 0
  THEN Spread(toolResult.items[1], Provenance(sourceUrl, "Stock Quote API"))
  ELSE toolResult

FallbackResult(toolName, toolResult, sourceUrl) ==
  IF IsObject(toolResult)
  THEN Spread(toolResult, Provenance(sourceUrl, toolName))
  ELSE toolResult

SearchError(toolResult, sourceUrl) ==
  Obj([error |-> IF IsObject(toolResult) THEN Prop(toolResult, "error")
                 ELSE Str("Unknown error"),
       sourceUrl |-> Str(sourceUrl),
       toolDescription |-> Str("Multi-Transcript Search")])

\* processToolResult of tool-executor.ts
processToolResult(toolName, toolResult, toolArgs, sourceUrl) ==
  CASE toolName = "resolveSymbol" -> ResolveSymbolResult(toolResult, toolArgs, sourceUrl)
    [] toolName = "getStatement" -> StatementResult(toolResult, toolArgs, sourceUrl)
    [] toolName = "getFinancialGrowth" ->
         Obj([symbol |-> Prop(toolArgs, "symbol"),
              metric |-> Prop(toolArgs, "metric"),
              requestedYears |-> Prop(toolArgs, "years"),
              rawData |-> toolResult,
              sourceUrl |-> Str(sourceUrl),
              toolDescription |-> Str("getFinancialGrowth")])
    [] toolName = "getQuote" -> QuoteResult(toolResult, sourceUrl)
    [] toolName = "searchTranscripts" ->
         IF IsObject(toolResult) /\ ~Truthy(Prop(toolResult, "error"))
         THEN Spread(toolResult, Provenance(sourceUrl, "Multi-Transcript Search"))
         ELSE SearchError(toolResult, sourceUrl)
    [] OTHER -> FallbackResult(toolName, toolResult, sourceUrl)

\* the processor switch inlined in POST (route.ts)
routeProcess(toolName, toolResult, toolArgs, sourceUrl) ==
  CASE toolName = "resolveSymbol" -> ResolveSymbolResult(toolResult, toolArgs, sourceUrl)
    [] toolName = "getStatement" -> StatementResult(toolResult, toolArgs, sourceUrl)
    [] toolName = "getQuote" -> QuoteResult(toolResult, sourceUrl)
    [] toolName = "searchTranscripts" ->
         IF IsObject(toolResult) /\ ~Truthy(Prop(toolResult, "error"))
         THEN Obj([query |-> Prop(toolResult, "query"),
                   results |-> Prop(toolResult, "results"),
                   totalMatches |-> Prop(toolResult, "totalMatches"),
                   companiesSearched |-> Prop(toolResult, "companiesSearched"),
                   transcriptsAnalyzed |-> Prop(toolResult, "transcriptsAnalyzed"),
                   sourceUrl |-> Str(sourceUrl),
                   toolDescription |-> Str("Multi-Transcript Search"),
                   summary |-> Str("Found " \o Text(Prop(toolResult, "totalMatches"))
                                     \o " mentions")])
         ELSE SearchError(toolResult, sourceUrl)
    [] OTHER -> FallbackResult(toolName, toolResult, sourceUrl)

\* result.success of a tool step:
\* !toolResult || (typeof toolResult === 'object' && !toolResult.error)
StepSuccess(toolResult) ==
  \/ ~Truthy(toolResult)
  \/ (IsObject(toolResult) /\ ~Truthy(Prop(toolResult, "error")))

(***************************************************************************)
(* One request through POST.  variant names the route file: route.ts (the  *)
(* agent loop that runs every requested call), part_003 (its predecessor,  *)
(* which runs the first call of a turn) and part_004 (one planner call,    *)
(* one tool, a JSON reply).                                                *)
(***************************************************************************)
VARIABLES
  variant,              \* which route file handles the request
  request,              \* the request body
  pc,                   \* where the handler is
  conversationHistory,  \* const conversationHistory = [...messages]
  allToolsUsed,         \* const allToolsUsed: string[]
  reasoningTrace,       \* const reasoningTrace: any[]
  toolStepCounter,      \* let toolStepCounter
  step,                 \* the for loop's step
  plannerDecision,      \* plannerDecision.tool_calls of the current turn
  toolIndex,            \* position of the for..of over the tool calls
  toolArgs,             \* the parsed arguments of the call being executed
  toolResponses,        \* const toolResponses = []
  response,             \* the HTTP response returned, status 0 while there is none
  events,               \* the events enqueued on the stream controller
  closed,               \* controller.close() has run
  planCalls,            \* planner completions requested
  synthCalls,           \* synthesizer completions requested
  fetches,              \* calls of fmpClient.get
  synthInput,           \* the conversation handed to the synthesizer
  executedIds,          \* ids of the tool calls executed so far
  exit,                 \* how the loop was left
  failure,              \* what threw, if anything did
  oddities,             \* non-default planner and provider choices made so far
  probe,                \* the arguments of a function applied on its own
  outcome,              \* what that function returned
  rawResults,           \* the toolResult of each call executed so far
  search,               \* the locals of executeTranscriptSearch
  client,               \* the locals of executeTool and fmpClient.get
  handlers,             \* the requests being handled at the same time
  stores,               \* the conversation, tools, counter and trace of each of them
  hook,                 \* the state of useChatHistory and of localStorage
  producer,             \* the stream of the synthesizer, the controller and the client's reader
  service,              \* the locals of streamChatResponse and what its callback received
  chat                  \* the state of useChat and of the components around it

vars ==
  <<variant, request, pc, conversationHistory, allToolsUsed, reasoningTrace,
    toolStepCounter, step, plannerDecision, toolIndex, toolArgs, toolResponses,
    response, events, closed, planCalls, synthCalls, fetches, synthInput,
    executedIds, exit, failure, oddities, probe, outcome, rawResults,
    search, client, handlers, stores, hook, producer, service, chat>>

maxSteps == 12
maxSteps003 == 5

\* bounds of the model
MaxOddities == 1
MaxChunks == 1

Variants == {"route.ts", "part_003", "part_004"}
Streaming == {"route.ts", "part_003"}

\* the loop test written step <= maxSteps: one turn too many
StepCeilingInclusive(v) == IF v = "route.ts" THEN maxSteps + 1 ELSE maxSteps003 + 1

\* while (step < maxSteps)
StepCeiling(v) == IF v = "route.ts" THEN maxSteps ELSE maxSteps003

\* the validation without its length test
MessagesAbsent(messages) == ~Truthy(messages)

\* !messages || messages.length === 0
MessagesMissing(messages) == ~Truthy(messages) \/ Len(messages.items) = 0

\* the turn closed after its first call whatever the route
FirstIsLast(v, index, calls) == TRUE

\* route.ts runs every call of the turn (for ... of tool_calls); its predecessors
\* run tool_calls[0] alone
LastOfTurn(v, index, calls) == v # "route.ts" \/ index = Len(calls)

UserMessage(text) == [role |-> "user", content |-> text]

\* request bodies: unparsable, without messages, with an empty list, with a chat
Requests ==
  {[json |-> FALSE, messages |-> Undef],
   [json |-> TRUE, messages |-> Undef],
   [json |-> TRUE, messages |-> Arr(<<>>)],
   [json |-> TRUE, messages |-> Arr(<<UserMessage("What is Spotify's revenue?")>>)]}

ToolCall(name, arguments) == [name |-> name, arguments |-> arguments]

\* what a planner turn may request: the function calls of one response
DefaultPlan == <<ToolCall("resolveSymbol", QueryJson)>>

Plans ==
  {DefaultPlan,
   <<ToolCall("resolveSymbol", QueryJson), ToolCall("getQuote", SymbolJson)>>,
   <<ToolCall("getQuote", SymbolJson)>>,
   <<ToolCall("getFinancialGrowth", GrowthJson)>>,
   <<ToolCall("lookupInsiders", SymbolJson)>>,
   <<ToolCall("lookupInsiders", SymbolJson), ToolCall("resolveSymbol", QueryJson)>>,
   <<ToolCall("resolveSymbol", TruncatedJson)>>,
   <<ToolCall("lookupInsiders", TruncatedJson)>>,
   <<ToolCall("lookupInsiders", SymbolJson), ToolCall("resolveSymbol", TruncatedJson)>>}

Row ==
  Obj([symbol |-> Str("SPOT"), name |-> Str("Spotify Technology"),
       exchange |-> Str("NYSE"), currency |-> Str("USD")])

\* what the network may answer to a GET
DefaultReply == HttpOk(Arr(<<Row>>))
Replies == {DefaultReply, HttpOk(Arr(<<>>)), HttpStatus}

Cost(choice, default) == IF choice = default THEN 0 ELSE 1

CallId(turn, i) == "call_" \o ToString(turn) \o "_" \o ToString(i)

NoResponse == [status |-> 0, kind |-> "none", details |-> FALSE]
Json(status, details) == [status |-> status, kind |-> "json", details |-> details]
EventStream == [status |-> 200, kind |-> "stream", details |-> FALSE]

\* the handler's locals as they are declared
Fresh ==
  /\ conversationHistory = <<>>
  /\ allToolsUsed = <<>>
  /\ reasoningTrace = <<>>
  /\ toolStepCounter = 0
  /\ step = 0
  /\ plannerDecision = <<>>
  /\ toolIndex = 0
  /\ toolArgs = Undef
  /\ toolResponses = <<>>
  /\ response = NoResponse
  /\ events = <<>>
  /\ closed = FALSE
  /\ planCalls = 0
  /\ synthCalls = 0
  /\ fetches = 0
  /\ synthInput = <<>>
  /\ executedIds = <<>>
  /\ exit = "none"
  /\ failure = "none"
  /\ oddities = 0
  /\ rawResults = <<>>

Init ==
  /\ variant \in Variants
  /\ request \in Requests
  /\ pc = "receive"
  /\ Fresh
  /\ probe = Undef
  /\ outcome = Undef
  /\ search = Undef
  /\ client = Undef
  /\ handlers = Undef
  /\ stores = Undef
  /\ hook = Undef
  /\ producer = Undef
  /\ service = Undef
  /\ chat = Undef

\* the outer catch answering { error } alone in every route
CaughtBare(what) ==
  /\ failure' = what
  /\ response' = Json(500, FALSE)
  /\ pc' = "done"

\* the outer catch: an HTTP 500, with details except in part_004
Caught(what) ==
  /\ failure' = what
  /\ response' = Json(500, variant # "part_004")
  /\ pc' = "done"

\* const { messages } = await req.json(); if (!messages || messages.length === 0)
Receive ==
  /\ pc = "receive"
  /\ IF ~request.json
     THEN /\ Caught("body")
          /\ UNCHANGED conversationHistory
     ELSE IF MessagesMissing(request.messages)
     THEN /\ response' = Json(400, FALSE)
          /\ pc' = "done"
          /\ UNCHANGED <<conversationHistory, failure>>
     ELSE /\ conversationHistory' = request.messages.items
          /\ pc' = "plan"
          /\ UNCHANGED <<response, failure>>
  /\ UNCHANGED <<producer, service, chat, hook, handlers, stores, client, search, rawResults, probe, outcome, variant, request, allToolsUsed, reasoningTrace, toolStepCounter, step,
                 plannerDecision, toolIndex, toolArgs, toolResponses, events, closed,
                 planCalls, synthCalls, fetches, synthInput, executedIds, exit, oddities>>

\* the result processing of part_004, which attaches no provenance
firstProcess(toolName, toolResult, args) ==
  CASE toolName = "resolveSymbol" ->
         IF IsArray(toolResult) /\ Len(toolResult.items) > 0
         THEN LET bestResult == BestResult(toolResult.items)
              IN Obj([query |-> Prop(args, "query"),
                      found |-> Bool(TRUE),
                      ticker |-> Prop(bestResult, "symbol"),
                      companyName |-> Prop(bestResult, "name"),
                      exchange |-> Prop(bestResult, "exchange"),
                      currency |-> Prop(bestResult, "currency"),
                      totalResultsFound |-> Num(Len(toolResult.items))])
         ELSE IF IsArray(toolResult)
         THEN Obj([query |-> Prop(args, "query"), found |-> Bool(FALSE)])
         ELSE Obj([query |-> Prop(args, "query"), found |-> Bool(FALSE),
                   error |-> Str("Unexpected response format"),
                   rawResult |-> toolResult])
    [] toolName = "getStatement" ->
         IF IsArray(toolResult) /\ Len(toolResult.items) > 0
         THEN Obj([symbol |-> Prop(args, "symbol"),
                   statementType |-> Prop(args, "statement"),
                   period |-> OrElse(Prop(args, "period"), Str("annual")),
                   recordsFound |-> Num(Len(toolResult.items)),
                   mostRecentPeriod |-> toolResult.items[1],
                   allPeriods |-> toolResult])
         ELSE Obj([symbol |-> Prop(args, "symbol"),
                   statementType |-> Prop(args, "statement"),
                   error |-> Str("No financial statements found")])
    [] toolName = "getQuote" ->
         IF IsArray(toolResult) /\ Len(toolResult.items) > 0
         THEN LET quote == toolResult.items[1]
              IN Obj([symbol |-> Prop(quote, "symbol"),
                      price |-> Prop(quote, "price"),
                      change |-> Prop(quote, "change"),
                      changesPercentage |-> Prop(quote, "changesPercentage"),
                      marketCap |-> Prop(quote, "marketCap"),
                      volume |-> Prop(quote, "volume"),
                      timestamp |-> OrElse(Prop(quote, "timestamp"),
                                           Str("new Date().toISOString()"))])
         ELSE Obj([error |-> Str("No quote data found"), rawResult |-> toolResult])
    [] OTHER -> toolResult

\* the planner answers with function calls: the loop takes them up
PlannerRequests ==
  /\ pc = "plan"
  /\ \E plan \in Plans :
       /\ oddities + Cost(plan, DefaultPlan) <= MaxOddities
       /\ oddities' = oddities + Cost(plan, DefaultPlan)
       /\ plannerDecision' =
            [i \in 1..Len(plan) |->
               [id |-> CallId(planCalls + 1, i), name |-> plan[i].name,
                arguments |-> plan[i].arguments]]
  /\ planCalls' = planCalls + 1
  /\ toolIndex' = 1
  /\ toolResponses' = <<>>
  /\ pc' = "execute"
  /\ UNCHANGED <<producer, service, chat, hook, handlers, stores, client, search, rawResults, probe, outcome, variant, request, conversationHistory, allToolsUsed, reasoningTrace,
                 toolStepCounter, step, toolArgs, response, events, closed, synthCalls,
                 fetches, synthInput, executedIds, exit, failure>>

\* the completion record numbered by the planner iteration
CompletionStepOfTurn ==
  [step |-> step + 1, type |-> "completion",
   message |-> "Agent finished - no more tools needed"]

CompletionStep ==
  [step |-> toolStepCounter + 1, type |-> "completion",
   message |-> "Agent finished - no more tools needed"]

\* the planner answers without tool calls: break (part_004 replies directly)
PlannerStops ==
  /\ pc = "plan"
  /\ planCalls' = planCalls + 1
  /\ IF variant \in Streaming
     THEN /\ reasoningTrace' =
               IF toolStepCounter > 0 THEN Append(reasoningTrace, CompletionStep)
               ELSE reasoningTrace
          /\ exit' = "no_tools"
          /\ pc' = "synthesize"
          /\ UNCHANGED response
     ELSE /\ response' = Json(200, FALSE)
          /\ pc' = "done"
          /\ UNCHANGED <<reasoningTrace, exit>>
  /\ UNCHANGED <<producer, service, chat, hook, handlers, stores, client, search, rawResults, probe, outcome, variant, request, conversationHistory, allToolsUsed, toolStepCounter,
                 step, plannerDecision, toolIndex, toolArgs, toolResponses, events,
                 closed, synthCalls, fetches, synthInput, executedIds, failure, oddities>>

\* the planner completion rejects: the outer catch answers
PlannerFails ==
  /\ pc = "plan"
  /\ planCalls' = planCalls + 1
  /\ Caught("planner")
  /\ UNCHANGED <<producer, service, chat, hook, handlers, stores, client, search, rawResults, probe, outcome, variant, request, conversationHistory, allToolsUsed, reasoningTrace,
                 toolStepCounter, step, plannerDecision, toolIndex, toolArgs,
                 toolResponses, events, closed, synthCalls, fetches, synthInput,
                 executedIds, exit, oddities>>

\* the record numbered by the planner iteration
ToolStepOfTurn(toolName, args) ==
  [step |-> step + 1, type |-> "tool_step", toolName |-> toolName,
   toolArgs |-> args, result |-> Null]

ToolStep(toolName, args) ==
  [step |-> toolStepCounter + 1, type |-> "tool_step", toolName |-> toolName,
   toolArgs |-> args, result |-> Null]

\* the head of the loop body: parse the arguments, record the step.  JSON.parse
\* is under no try of its own, so a SyntaxError reaches the outer catch.
StartTool ==
  /\ pc = "execute"
  /\ LET toolCall == plannerDecision[toolIndex]
         parsed == JSONParse(toolCall.arguments)
     IN IF parsed.threw
        THEN /\ Caught("tool")
             /\ UNCHANGED <<toolArgs, allToolsUsed, toolStepCounter, reasoningTrace>>
        ELSE /\ toolArgs' = parsed.value
             /\ pc' = "fetch"
             /\ IF variant \in Streaming
                THEN /\ allToolsUsed' = Append(allToolsUsed, toolCall.name)
                     /\ toolStepCounter' = toolStepCounter + 1
                     /\ reasoningTrace' =
                          Append(reasoningTrace, ToolStep(toolCall.name, parsed.value))
                ELSE UNCHANGED <<allToolsUsed, toolStepCounter, reasoningTrace>>
             /\ UNCHANGED <<response, failure>>
  /\ UNCHANGED <<producer, service, chat, hook, handlers, stores, client, search, rawResults, probe, outcome, variant, request, conversationHistory, step, plannerDecision, toolIndex,
                 toolResponses, events, closed, planCalls, synthCalls, fetches,
                 synthInput, executedIds, exit, oddities>>

StepResult(toolResult) ==
  Obj([success |-> Bool(StepSuccess(toolResult)),
       preview |-> Str(IF IsObject(toolResult)
                       THEN "Object with " \o ToString(Cardinality(DOMAIN Props(toolResult)))
                              \o " keys"
                       ELSE Text(toolResult))])

\* the result written to the first record of the trace
FillFirst(trace, toolResult) ==
  IF Len(trace) > 0
  THEN [trace EXCEPT ![1].result = StepResult(toolResult)]
  ELSE trace

\* currentStep.result = {...} when currentStep.step === toolStepCounter
FillResult(trace, toolResult) ==
  IF Len(trace) > 0 /\ trace[Len(trace)].step = toolStepCounter
  THEN [trace EXCEPT ![Len(trace)].result = StepResult(toolResult)]
  ELSE trace

ToolMessage(id, processed) ==
  [tool_call_id |-> id, role |-> "tool", content |-> Serialize(processed)]

AssistantMessage(calls) == [role |-> "assistant", tool_calls |-> calls]

\* the response put in front of the earlier ones
Unshifted(responses, message) == <<message>> \o responses

\* toolResponses.push(...)
Pushed(responses, message) == Append(responses, message)

\* the conversation begun anew with the turn
TurnAlone(history, decision, responses) ==
  <<AssistantMessage(decision)>> \o responses

\* conversationHistory.push({...plannerDecision, role: "assistant"}), then one
\* push per tool response
TurnPushed(history, decision, responses) ==
  history \o <<AssistantMessage(decision)>> \o responses

\* the rest of the loop body: the executor switch, the trace result, the
\* processor switch, toolResponses.push; after the last call of the turn the
\* assistant message and the tool messages go onto the conversation
FinishTool ==
  /\ pc = "fetch"
  /\ \E reply \in Replies :
     \E ran \in {routeExecute(plannerDecision[toolIndex].name, toolArgs, reply)} :
     \E processed \in
          {IF variant = "part_004"
           THEN firstProcess(plannerDecision[toolIndex].name, ran.toolResult, toolArgs)
           ELSE routeProcess(plannerDecision[toolIndex].name, ran.toolResult, toolArgs,
                             ran.sourceUrl)} :
     \E lastOfTurn \in {LastOfTurn(variant, toolIndex, plannerDecision)} :
     \E responses \in
          {Pushed(toolResponses, ToolMessage(plannerDecision[toolIndex].id, processed))} :
       LET toolCall == plannerDecision[toolIndex]
       IN /\ (ran.fetches = 0 => reply = DefaultReply)
          /\ oddities + Cost(reply, DefaultReply) <= MaxOddities
          /\ oddities' = oddities + Cost(reply, DefaultReply)
          /\ fetches' = fetches + ran.fetches
          /\ reasoningTrace' = FillResult(reasoningTrace, ran.toolResult)
          /\ toolResponses' = responses
          /\ executedIds' = Append(executedIds, toolCall.id)
          /\ rawResults' = Append(rawResults, ran.toolResult)
          /\ IF ~lastOfTurn
             THEN /\ toolIndex' = toolIndex + 1
                  /\ pc' = "execute"
                  /\ UNCHANGED <<conversationHistory, step, exit>>
             ELSE /\ conversationHistory' =
                       TurnPushed(conversationHistory, plannerDecision, responses)
                  /\ step' = step + 1
                  /\ UNCHANGED toolIndex
                  /\ IF variant = "part_004"
                     THEN pc' = "synthesize" /\ UNCHANGED exit
                     ELSE IF step + 1 < StepCeiling(variant)
                     THEN pc' = "plan" /\ UNCHANGED exit
                     ELSE pc' = "synthesize" /\ exit' = "ceiling"
  /\ UNCHANGED <<producer, service, chat, hook, handlers, stores, client, search, probe, outcome, variant, request, allToolsUsed, toolStepCounter, plannerDecision,
                 toolArgs, response, events, closed, planCalls, synthCalls, synthInput,
                 failure>>

\* the metadata with the records of the trace counted as steps
MetadataCountingRecords ==
  [type |-> "metadata", toolsUsed |-> allToolsUsed, stepCount |-> Len(reasoningTrace),
   reasoning |-> reasoningTrace]

Metadata ==
  [type |-> "metadata", toolsUsed |-> allToolsUsed, stepCount |-> Len(allToolsUsed),
   reasoning |-> reasoningTrace]

\* the synthesizer completion resolves: the stream is built and start() enqueues
\* the metadata event (part_004 awaits the whole reply and answers with JSON)
SynthStarts ==
  /\ pc = "synthesize"
  /\ synthCalls' = synthCalls + 1
  /\ synthInput' = conversationHistory
  /\ IF variant \in Streaming
     THEN /\ response' = EventStream
          /\ events' = <<Metadata>>
          /\ pc' = "stream"
     ELSE /\ response' = Json(200, FALSE)
          /\ pc' = "done"
          /\ UNCHANGED events
  /\ UNCHANGED <<producer, service, chat, hook, handlers, stores, client, search, rawResults, probe, outcome, variant, request, conversationHistory, allToolsUsed, reasoningTrace,
                 toolStepCounter, step, plannerDecision, toolIndex, toolArgs,
                 toolResponses, closed, planCalls, fetches, executedIds, exit, failure,
                 oddities>>

\* the synthesizer completion rejects before there is a stream
SynthFails ==
  /\ pc = "synthesize"
  /\ synthCalls' = synthCalls + 1
  /\ synthInput' = conversationHistory
  /\ Caught("synth")
  /\ UNCHANGED <<producer, service, chat, hook, handlers, stores, client, search, rawResults, probe, outcome, variant, request, conversationHistory, allToolsUsed, reasoningTrace,
                 toolStepCounter, step, plannerDecision, toolIndex, toolArgs,
                 toolResponses, events, closed, planCalls, fetches, executedIds, exit,
                 oddities>>

ContentEvents == SelectSeq(events, LAMBDA e : e.type = "content")

\* a chunk whose delta has content becomes a content event
ContentChunk ==
  /\ pc = "stream"
  /\ Len(ContentEvents) < MaxChunks
  /\ events' = Append(events, [type |-> "content", content |-> "Spotify"])
  /\ UNCHANGED <<producer, service, chat, hook, handlers, stores, client, search, rawResults, probe, outcome, variant, request, pc, conversationHistory, allToolsUsed, reasoningTrace,
                 toolStepCounter, step, plannerDecision, toolIndex, toolArgs,
                 toolResponses, response, closed, planCalls, synthCalls, fetches,
                 synthInput, executedIds, exit, failure, oddities>>

\* a chunk with an empty delta is skipped: if (content)
EmptyChunk ==
  /\ pc = "stream"
  /\ UNCHANGED vars

\* the iteration completes: done, then finally close
StreamEnds ==
  /\ pc = "stream"
  /\ events' = Append(events, [type |-> "done"])
  /\ closed' = TRUE
  /\ pc' = "done"
  /\ UNCHANGED <<producer, service, chat, hook, handlers, stores, client, search, rawResults, probe, outcome, variant, request, conversationHistory, allToolsUsed, reasoningTrace,
                 toolStepCounter, step, plannerDecision, toolIndex, toolArgs,
                 toolResponses, response, planCalls, synthCalls, fetches, synthInput,
                 executedIds, exit, failure, oddities>>

\* the failure noticed after done was enqueued
StreamBreaksAfterDone ==
  /\ pc = "stream"
  /\ events' = events \o <<[type |-> "done"], [type |-> "error", error |-> "stream failed"]>>
  /\ closed' = TRUE
  /\ failure' = "stream"
  /\ pc' = "done"
  /\ UNCHANGED <<producer, service, chat, hook, handlers, stores, client, search, rawResults, probe, outcome, variant, request, conversationHistory, allToolsUsed, reasoningTrace,
                 toolStepCounter, step, plannerDecision, toolIndex, toolArgs,
                 toolResponses, response, planCalls, synthCalls, fetches, synthInput,
                 executedIds, exit, oddities>>

\* the iteration throws: the inner catch enqueues error, then finally close
StreamBreaks ==
  /\ pc = "stream"
  /\ events' = Append(events, [type |-> "error", error |-> "stream failed"])
  /\ closed' = TRUE
  /\ failure' = "stream"
  /\ pc' = "done"
  /\ UNCHANGED <<producer, service, chat, hook, handlers, stores, client, search, rawResults, probe, outcome, variant, request, conversationHistory, allToolsUsed, reasoningTrace,
                 toolStepCounter, step, plannerDecision, toolIndex, toolArgs,
                 toolResponses, response, planCalls, synthCalls, fetches, synthInput,
                 executedIds, exit, oddities>>

Next ==
  \/ Receive
  \/ PlannerRequests
  \/ PlannerStops
  \/ PlannerFails
  \/ StartTool
  \/ FinishTool
  \/ SynthStarts
  \/ SynthFails
  \/ ContentChunk
  \/ EmptyChunk
  \/ StreamEnds
  \/ StreamBreaks

Spec == Init /\ [][Next]_vars

\* every awaited call eventually settles
FairSpec == Spec /\ WF_vars(Next)

(***************************************************************************)
(* The two result processors on their own: any tool name, any raw result.  *)
(***************************************************************************)
ProbeTools == Registry \cup {"lookupInsiders"}

SearchSummary ==
  Obj([query |-> Obj([topic |-> Str("margin")]), results |-> Arr(<<>>),
       totalMatches |-> Num(0), companiesSearched |-> Num(1),
       transcriptsAnalyzed |-> Num(0)])

\* a reply of two rows
TwoRows == Arr(<<Row, Obj([symbol |-> Str("SPOT.L"), price |-> Num(11)])>>)

RawResults ==
  {Arr(<<Row>>), TwoRows, Arr(<<>>), get(HttpStatus), get(NetworkError), Null,
   Str("Limit Reach"), SearchSummary}

ArgsFor(toolName) ==
  CASE toolName = "resolveSymbol" -> JSONParse(QueryJson).value
    [] toolName = "getStatement" -> JSONParse(StatementJson).value
    [] toolName = "getFinancialGrowth" -> JSONParse(GrowthJson).value
    [] toolName \in {"searchNews", "searchTranscripts"} -> JSONParse(SymbolsJson).value
    [] OTHER -> JSONParse(SymbolJson).value

Processors == {"tool-executor.ts", "route.ts"}

\* the candidates of a /search-name reply
Candidates ==
  {Obj([symbol |-> Str(c.symbol), name |-> Str("Spotify Technology"),
        exchange |-> Str(c.exchange), currency |-> Str(c.currency)]) :
     c \in [symbol : {"SPOT", "SPOT.L"}, exchange : {"NASDAQ", "NYSE", "LSE"},
            currency : {"USD", "GBP"}]}

MaxCandidates == 3

CandidateLists ==
  {Arr(items) : items \in UNION {[1..n -> Candidates] : n \in 1..MaxCandidates}}

ProcessorProbes ==
  [processor : Processors, toolName : ProbeTools, toolResult : RawResults]
    \cup [processor : Processors, toolName : {"resolveSymbol"},
          toolResult : CandidateLists]

\* the sourceUrl the executor of the same file hands to its processor
ProbeSourceUrl(processor, toolName, args) ==
  IF toolName = "searchTranscripts"
  THEN IF processor = "route.ts" THEN RouteSearchUrl(args) ELSE ExecutorSearchUrl(args)
  ELSE SourceUrl(toolName, args)

ProcInit ==
  /\ variant = "route.ts"
  /\ request = [json |-> FALSE, messages |-> Undef]
  /\ pc = "probe"
  /\ Fresh
  /\ probe \in ProcessorProbes
  /\ outcome = Undef
  /\ search = Undef
  /\ client = Undef
  /\ handlers = Undef
  /\ stores = Undef
  /\ hook = Undef
  /\ producer = Undef
  /\ service = Undef
  /\ chat = Undef

\* processToolResult(toolName, toolResult, toolArgs, sourceUrl), then JSON.stringify
ApplyProcessToolResult ==
  /\ pc = "probe"
  /\ probe.processor = "tool-executor.ts"
  /\ LET args == ArgsFor(probe.toolName)
     IN outcome' = Serialize(processToolResult(probe.toolName, probe.toolResult, args,
                               ProbeSourceUrl(probe.processor, probe.toolName, args)))
  /\ pc' = "probed"
  /\ UNCHANGED <<producer, service, chat, hook, handlers, stores, client, search, rawResults, probe, variant, request, conversationHistory, allToolsUsed, reasoningTrace,
                 toolStepCounter, step, plannerDecision, toolIndex, toolArgs,
                 toolResponses, response, events, closed, planCalls, synthCalls,
                 fetches, synthInput, executedIds, exit, failure, oddities>>

\* the processor switch of route.ts on what its executor switch assigned, then
\* JSON.stringify
ApplyRouteProcess ==
  /\ pc = "probe"
  /\ probe.processor = "route.ts"
  /\ LET args == ArgsFor(probe.toolName)
         toolResult == IF probe.toolName = "getFinancialGrowth"
                       THEN GrowthResult(args, probe.toolResult)
                       ELSE probe.toolResult
     IN outcome' = Serialize(routeProcess(probe.toolName, toolResult, args,
                               ProbeSourceUrl(probe.processor, probe.toolName, args)))
  /\ pc' = "probed"
  /\ UNCHANGED <<producer, service, chat, hook, handlers, stores, client, search, rawResults, probe, variant, request, conversationHistory, allToolsUsed, reasoningTrace,
                 toolStepCounter, step, plannerDecision, toolIndex, toolArgs,
                 toolResponses, response, events, closed, planCalls, synthCalls,
                 fetches, synthInput, executedIds, exit, failure, oddities>>

ProcNext ==
  \/ ApplyProcessToolResult
  \/ ApplyRouteProcess

ProcSpec == ProcInit /\ [][ProcNext]_vars

(***************************************************************************)
(* Properties of the agent loop and of the stream.                         *)
(***************************************************************************)
NoMessages == ~Truthy(request.messages) \/ request.messages = Arr(<<>>)
NonEmptyRequest == request.json /\ ~NoMessages

Terminal == {"done", "error"}

TurnIds == [i \in 1..Len(plannerDecision) |-> plannerDecision[i].id]

LastK(seq, k) == SubSeq(seq, Len(seq) - k + 1, Len(seq))

\* every call of the last planner decision has been executed, in order
TurnExecuted ==
  /\ Len(executedIds) >= Len(plannerDecision)
  /\ LastK(executedIds, Len(plannerDecision)) = TurnIds

\* the conversation ends with the assistant message of the last planner decision
\* followed by one tool message per requested call, ids matching in order
TurnOnRecord ==
  LET k == Len(plannerDecision)
      n == Len(conversationHistory)
  IN /\ k >= 1
     /\ n >= k + 1
     /\ conversationHistory[n - k] = AssistantMessage(plannerDecision)
     /\ \A i \in 1..k :
          /\ conversationHistory[n - k + i].role = "tool"
          /\ conversationHistory[n - k + i].tool_call_id = plannerDecision[i].id

\* the conversation holds a tool message answering the call
Answered(id) ==
  \E j \in 1..Len(conversationHistory) :
    /\ conversationHistory[j].role = "tool"
    /\ conversationHistory[j].tool_call_id = id

\* C1: whatever the planner answers, one request through route.ts issues at
\* most maxSteps = 12 planning calls.
C1_PlanningCallsBounded == variant = "route.ts" => planCalls <= maxSteps

C1_Witness ==
  variant = "route.ts" /\ planCalls = maxSteps /\ exit = "ceiling" /\ pc = "done"

C2_Shape ==
  LET n == Len(events)
  IN /\ (response.kind = "stream") = (n >= 1)
     /\ n >= 1 => events[1].type = "metadata"
     /\ \A i \in 2..n : events[i].type # "metadata"
     /\ \A i \in 1..(n - 1) : events[i].type \notin Terminal
     /\ closed = (n >= 1 /\ events[n].type \in Terminal)
     /\ (pc = "done" /\ response.kind = "stream") => closed

C2_Step ==
  events' # events =>
    /\ ~closed
    /\ Len(events') = Len(events) + 1
    /\ SubSeq(events', 1, Len(events)) = events

C4_SynthesisExactlyOnce ==
  (variant = "route.ts" /\ pc = "done" /\ NonEmptyRequest /\ failure # "planner")
    => synthCalls = 1 /\ synthInput = conversationHistory

\* every request completes, whatever the planner and the provider answer
Terminates == <>(pc = "done")

\* C5: when the planner asks for tools in every one of its maxSteps turns and
\* every external call returns, the request ends as a stream closed by done.
C5_CeilingEndsWithDone ==
  (variant = "route.ts" /\ pc = "done" /\ planCalls = maxSteps /\ exit # "no_tools"
     /\ failure \notin {"planner", "synth", "stream"})
    => /\ exit = "ceiling"
       /\ response = EventStream
       /\ closed
       /\ events[Len(events)].type = "done"

HasProvenance(v) ==
  IsObject(v) /\ Truthy(Prop(v, "sourceUrl")) /\ Truthy(Prop(v, "toolDescription"))

\* C6: for every tool name and every raw result, the processed result carries a
\* non-empty sourceUrl and a non-empty toolDescription.
C6_ProvenanceOnEveryResult == pc = "probed" => HasProvenance(outcome)

\* C7: in every route, a request whose messages are absent or an empty list is
\* answered 400 and causes no planner, tool or synthesizer call.
C7_MissingMessagesRejected ==
  (request.json /\ NoMessages)
    => /\ planCalls = 0 /\ synthCalls = 0 /\ fetches = 0
       /\ executedIds = <<>> /\ events = <<>>
       /\ pc = "done" => response = Json(400, FALSE)

C7_Witness ==
  /\ variant = "part_004" /\ request.messages = Arr(<<>>)
  /\ pc = "done" /\ response.status = 400

\* C8: a failure raised while one requested tool call is executed is absorbed
\* where it happens: it never becomes the request's HTTP 500.
C8_ToolFailureAbsorbed ==
  (variant = "route.ts" /\ pc = "done" /\ response.status = 500)
    => failure \in {"body", "planner", "synth"}

C10_UnknownToolAnswered ==
  (variant = "route.ts" /\ pc = "done")
    => \A i \in 1..Len(plannerDecision) :
         plannerDecision[i].name \notin Registry => Answered(plannerDecision[i].id)


(***************************************************************************)
(* The transcript search (app/api/chat/transcript-searcher.ts).  A         *)
(* transcript body is a sequence of lines; a line carries its text, its    *)
(* length after trim(), the speaker label it opens with ("" for none), the *)
(* executive patterns that match it, the topics the fuzzy search matches   *)
(* it for, and the score of that match (in thousandths).                   *)
(***************************************************************************)
ResultsCap == 15
PerTranscriptCap == 8
MAX_MENTIONS_TO_RETURN == 15
SNIPPET_LENGTH == 200
ContextLength == 800
MinParagraphLength == 50
DefaultLookback == 4

\* the transcript-dates entries a provider reply lists
MaxDates == 3

Min(a, b) == IF a < b THEN a ELSE b
Max(a, b) == IF a > b THEN a ELSE b

\* the list left whole
Whole(items, n) == items

\* s.substring(0, n)
Substring(s, n) == SubSeq(s, 1, Min(n, Len(s)))

\* items.slice(0, n)
Slice(items, n) == SubSeq(items, 1, Min(n, Len(items)))

\* the list in the order of its making
AsPushed(items) == items

\* where a stable sort on score puts the i-th element
Rank(items, i) ==
  Cardinality({j \in 1..Len(items) :
                 \/ items[j].score < items[i].score
                 \/ (items[j].score = items[i].score /\ j < i)}) + 1

StableSort(items) ==
  [r \in 1..Len(items) |-> items[CHOOSE i \in 1..Len(items) : Rank(items, i) = r]]

\* where a sort that reverses equal scores puts the i-th element
ReverseRank(items, i) ==
  Cardinality({j \in 1..Len(items) :
                 \/ items[j].score < items[i].score
                 \/ (items[j].score = items[i].score /\ j > i)}) + 1

\* a sort free to order equal scores either way
SortEitherWay(items) ==
  {StableSort(items),
   [r \in 1..Len(items) |->
      items[CHOOSE i \in 1..Len(items) : ReverseRank(items, i) = r]]}

\* Array.prototype.sort((a, b) => a.score - b.score): the orders the engine
\* may produce.  The sort is stable, so there is one.
SortByScore(items) == {StableSort(items)}

\* the words of a long paragraph
Remarks ==
  "we saw gross margin and operating profit move with the mix of products and services this quarter, we saw gross margin and operating profit move with the mix of products and services this quarter, we saw gross margin and operating profit move with the mix of products and services this quarter,"

LongTranscript ==
  [i \in 1..17 |->
     [text |-> IF i = 3 THEN "Next question, please."
               ELSE "Paragraph " \o ToString(i) \o ": " \o Remarks,
      length |-> IF i = 3 THEN 22 ELSE Len("Paragraph " \o ToString(i) \o ": " \o Remarks),
      label |-> IF i % 5 = 1 THEN "Tim Cook" ELSE "",
      names |-> IF i \in {2, 10} THEN {"Cook"} ELSE {},
      topics |-> IF i % 2 = 0 THEN {"margin"} ELSE {"profit"},
      score |-> (i * 7) % 5 * 50]]

ShortTranscript ==
  <<[text |-> "Welcome", length |-> 7, label |-> "", names |-> {},
     topics |-> {}, score |-> 0],
    [text |-> "Gross margin rose", length |-> 60, label |-> "Luca Maestri",
     names |-> {"Cook"}, topics |-> {"margin"}, score |-> 100],
    [text |-> "Margin outlook", length |-> 70, label |-> "",
     names |-> {}, topics |-> {"margin"}, score |-> 100]>>

\* content.split('\n').filter(p => p.trim().length > 50).map((text, index) => ...)
Paragraphs(content) == SelectSeq(content, LAMBDA l : l.length > MinParagraphLength)

\* fuse.search({ $or: topics }): the paragraphs matching one of the topics,
\* best score first, earlier paragraph first among equals
FuseSearch(paragraphs, topics) ==
  LET hits == SelectSeq([i \in 1..Len(paragraphs) |->
                           [item |-> i, score |-> paragraphs[i].score]],
                        LAMBDA h : paragraphs[h.item].topics
                                     \cap {topics[k] : k \in 1..Len(topics)} # {})
  IN StableSort(hits)

\* the patterns new RegExp(exec, 'i') rejects with a SyntaxError
InvalidPatterns == {"(CFO"}

\* paragraphs.slice(a - 1, b).map(p => p.text).join('\n')
JoinTexts(paragraphs, a, b) ==
  LET joined[i \in (a - 1)..b] ==
        IF i = a - 1 THEN ""
        ELSE IF i = a THEN paragraphs[i].text
        ELSE joined[i - 1] \o "\n" \o paragraphs[i].text
  IN joined[b]

\* the loop keeping a result that no pattern matches
ExecutiveScanLenient(paragraphs, i, executives) ==
  LET area == UNION {paragraphs[j].names : j \in Max(1, i - 3)..i}
      matching == {k \in 1..Len(executives) : executives[k] \in area}
  IN [threw |-> FALSE, executiveMatch |-> TRUE,
      speaker |-> IF matching = {} THEN "Unknown"
                  ELSE executives[CHOOSE m \in matching : \A n \in matching : m <= n]]

\* the for (const exec of executives) loop on one result: the first pattern
\* that is invalid or matches the search area decides
ExecutiveScan(paragraphs, i, executives) ==
  LET area == UNION {paragraphs[j].names : j \in Max(1, i - 3)..i}
      decisive == {k \in 1..Len(executives) :
                     executives[k] \in InvalidPatterns \/ executives[k] \in area}
  IN IF decisive = {} THEN [threw |-> FALSE, executiveMatch |-> FALSE, speaker |-> "Unknown"]
     ELSE LET k == CHOOSE m \in decisive : \A n \in decisive : m <= n
          IN IF executives[k] \in InvalidPatterns
             THEN [threw |-> TRUE, executiveMatch |-> FALSE, speaker |-> "Unknown"]
             ELSE [threw |-> FALSE, executiveMatch |-> TRUE, speaker |-> executives[k]]

\* what one result of the fuzzy search becomes
MentionOf(paragraphs, result, topics, executives) ==
  LET i == result.item
      n == Len(paragraphs)
      scan == ExecutiveScan(paragraphs, i, executives)
      context == JoinTexts(paragraphs, Max(1, i - 1), Min(n, i + 1))
  IN [threw |-> Len(executives) > 0 /\ scan.threw,
      kept |-> Len(executives) = 0 \/ scan.executiveMatch,
      mention |->
        [topic |-> IF paragraphs[i].text # "" THEN paragraphs[i].text ELSE topics[1],
         speaker |-> IF Len(executives) > 0 THEN scan.speaker
                     ELSE IF paragraphs[i].label # "" THEN paragraphs[i].label
                     ELSE "Unknown",
         context |-> Substring(context, ContextLength),
         score |-> result.score]]

\* the mentions of one transcript before the closing sort, or threw when a
\* pattern is rejected
ScanResults(content, topics, executives) ==
  IF Len(content) = 0 \/ Len(topics) = 0
  THEN [threw |-> FALSE, mentions |-> <<>>]
  ELSE LET paragraphs == Paragraphs(content)
           results == Slice(FuseSearch(paragraphs, topics), ResultsCap)
           made == [r \in 1..Len(results) |->
                      MentionOf(paragraphs, results[r], topics, executives)]
       IN [threw |-> \E r \in 1..Len(made) : made[r].threw,
           mentions |-> [r \in 1..Cardinality({q \in 1..Len(made) : made[q].kept}) |->
                           made[CHOOSE q \in 1..Len(made) :
                                  /\ made[q].kept
                                  /\ Cardinality({o \in 1..q : made[o].kept}) = r].mention]]

\* searchTranscriptContent: the mention lists it may return
searchTranscriptContent(content, topics, executives) ==
  LET scanned == ScanResults(content, topics, executives)
  IN [threw |-> scanned.threw,
      mentions |-> {Slice(sorted, PerTranscriptCap) :
                      sorted \in SortByScore(scanned.mentions)}]

\* the list kept with its repetitions
Concatenated(items) == items

\* [...new Set(items)]: the first occurrence of each value, in order
Dedup(items) ==
  LET firsts == {i \in 1..Len(items) : \A j \in 1..(i - 1) : items[j] # items[i]}
  IN [r \in 1..Cardinality(firsts) |->
        items[CHOOSE i \in firsts : Cardinality({j \in firsts : j <= i}) = r]]


\* const { symbols, topic, executives, lookbackQuarters } = { ... }
Destructure(args) ==
  [symbols |-> IF IsArray(Prop(args, "symbols")) THEN Prop(args, "symbols").items
               ELSE <<Prop(args, "symbols")>>,
   topic |-> OrElse(Prop(args, "topic"), Str("")),
   executives |-> OrElse(Prop(args, "executives"), Arr(<<>>)),
   lookbackQuarters |-> OrElse(Prop(args, "lookbackQuarters"), Num(DefaultLookback))]

\* the strings of a list of values
Texts(items) == [i \in 1..Len(items) |-> Text(items[i])]

\* the arguments of a searchTranscripts call; an absent property is left out
SearchArgs(symbols, topic, executives, lookbackQuarters) ==
  Serialize(Obj([symbols |-> symbols, topic |-> topic, executives |-> executives,
                 lookbackQuarters |-> lookbackQuarters]))

SearchProbes ==
  {SearchArgs(symbols, topic, executives, lookbackQuarters) :
     symbols \in {Arr(<<Str("AAA"), Str("BBB")>>), Str("AAA")},
     topic \in {Undef, Str("margin")},
     executives \in {Undef, Arr(<<Str("Nadella"), Str("Cook")>>), Arr(<<Str("(CFO")>>)},
     lookbackQuarters \in {Undef, Num(1), Num(2)}}

\* what the completion service may answer to the topic expansion request
TopicsJson == "{\"topics\":[\"profit\",\"margin\",\"profit\"]}"
TopicsTextJson == "{\"topics\":\"profit\"}"
EmptyJson == "{}"
TruncatedTopicsJson == "{\"topics\":[\"pro"
Completion(content) == [kind |-> "completion", content |-> content]
Refused == [kind |-> "refused", content |-> Null]
DefaultExpansion == Completion(Str(TopicsJson))
ExpansionReplies ==
  {DefaultExpansion, Completion(Str(TopicsTextJson)), Completion(Null),
   Completion(Str(TruncatedTopicsJson)), Refused}

\* JSON.parse(topicExpansionResponse.choices[0].message.content || '{}')
ParseExpansion(content) ==
  LET text == Text(OrElse(content, Str(EmptyJson)))
  IN CASE text = TopicsJson ->
            [threw |-> FALSE,
             value |-> Obj([topics |-> Arr(<<Str("profit"), Str("margin"), Str("profit")>>)])]
       [] text = TopicsTextJson ->
            [threw |-> FALSE, value |-> Obj([topics |-> Str("profit")])]
       [] text = EmptyJson ->
            [threw |-> FALSE, value |-> Obj([k \in {} |-> Undef])]
       [] OTHER -> [threw |-> TRUE, value |-> Undef]

\* the topics the search runs with, given the reply to the expansion request
ExpandedTopics(topic, reply) ==
  IF reply.kind # "completion" THEN <<topic>>
  ELSE LET parsed == ParseExpansion(reply.content)
       IN IF parsed.threw THEN <<topic>>
          ELSE LET topics == Prop(parsed.value, "topics")
               IN IF Truthy(topics) /\ IsArray(topics)
                  THEN Dedup(<<topic>> \o Texts(topics.items))
                  ELSE <<topic>>

\* what the provider may list as the transcript dates of a symbol
DateEntry(k) == Obj([fiscalYear |-> Num(2025), quarter |-> Num(k),
                     date |-> Str("2025-Q" \o ToString(k))])
DatesListed(n) == Arr([k \in 1..n |-> DateEntry(k)])
DefaultDates == HttpOk(DatesListed(MaxDates))
DatesReplies ==
  {DefaultDates, HttpOk(DatesListed(1)), HttpOk(Arr(<<>>)), HttpStatus,
   HttpOk(Arr(<<Null>>)), HttpOk(Arr(<<Obj([year |-> Num(2025)])>>))}

\* the text of a transcript, as its lines
Content(lines) == [t |-> "string", s |-> "transcript", lines |-> lines]
Lines(content) == IF "lines" \in DOMAIN content THEN content.lines ELSE <<>>

\* what the provider may answer to the request for one transcript
TranscriptBody(lines, date) ==
  HttpOk(Arr(<<Obj([content |-> Content(lines), date |-> Prop(date, "date")])>>))
DefaultBody(date) == TranscriptBody(LongTranscript, date)
BodyReplies(date) ==
  {DefaultBody(date), TranscriptBody(ShortTranscript, date),
   HttpOk(Arr(<<Obj([date |-> Prop(date, "date")])>>)), HttpOk(Arr(<<>>)),
   NetworkError}

\* the locals of one run of executeTranscriptSearch, with the record of what
\* it fetched and of what the upstream services answered
NewSearch(run, log, first) ==
  [run |-> run, log |-> log, cursor |-> 1, first |-> first,
   expandedTopics |-> <<>>, expansionCalls |-> 0,
   symbolIndex |-> 1, recentDates |-> <<>>, dateIndex |-> 1,
   allMentions |-> <<>>, transcriptsAnalyzedCount |-> 0,
   datesFetched |-> <<>>, bodiesFetched |-> <<>>, scans |-> <<>>]

SearchInit ==
  /\ variant = "route.ts"
  /\ request = [json |-> FALSE, messages |-> Undef]
  /\ pc = "expand"
  /\ Fresh
  /\ probe \in SearchProbes
  /\ outcome = Undef
  /\ search = NewSearch(1, <<>>, Undef)
  /\ client = Undef
  /\ handlers = Undef
  /\ stores = Undef
  /\ hook = Undef
  /\ producer = Undef
  /\ service = Undef
  /\ chat = Undef

\* the upstream replies a step may receive: any reply the budget allows in
\* the first run, the recorded reply in the second
Choices(replies, default) ==
  IF search.run = 1
  THEN {reply \in replies : oddities + Cost(reply, default) <= MaxOddities}
  ELSE {search.log[search.cursor]}

Logged(s, reply) ==
  [s EXCEPT !.log = IF s.run = 1 THEN Append(@, reply) ELSE @, !.cursor = @ + 1]

Spent(reply, default) ==
  IF search.run = 1 THEN oddities + Cost(reply, default) ELSE oddities

SearchFrame ==
  UNCHANGED <<producer, service, chat, hook, handlers, stores, client, rawResults, probe, variant, request, conversationHistory, allToolsUsed,
              reasoningTrace, toolStepCounter, step, plannerDecision, toolIndex,
              toolArgs, toolResponses, response, events, closed, planCalls,
              synthCalls, fetches, synthInput, executedIds, exit, failure>>

\* where the for (const symbol of symbols) loop stands at symbol i
AtSymbol(i) == IF i <= Len(Destructure(probe).symbols) THEN "dates" ELSE "summarize"

\* lines 97-115: the topic expansion
ExpandTopic ==
  /\ pc = "expand"
  /\ LET query == Destructure(probe)
     IN IF ~Truthy(query.topic)
        THEN /\ search' = [search EXCEPT !.expandedTopics = <<Text(query.topic)>>]
             /\ oddities' = oddities
        ELSE \E reply \in Choices(ExpansionReplies, DefaultExpansion) :
               /\ search' = [Logged(search, reply) EXCEPT
                               !.expandedTopics = ExpandedTopics(Text(query.topic), reply),
                               !.expansionCalls = @ + 1]
               /\ oddities' = Spent(reply, DefaultExpansion)
  /\ pc' = AtSymbol(1)
  /\ outcome' = outcome
  /\ SearchFrame

\* the exception left to the caller
Uncaught(query) == [threw |-> TRUE]

\* the object the outer catch returns
OuterCatch(query) ==
  [error |-> "Failed to search transcripts: error", query |-> query]

\* lines 121-126: the dates of one symbol
FetchDates ==
  /\ pc = "dates"
  /\ LET query == Destructure(probe)
         symbol == query.symbols[search.symbolIndex]
     IN \E reply \in Choices(DatesReplies, DefaultDates) :
          \E transcriptDatesResult \in {get(reply)} :
            LET s == [Logged(search, reply) EXCEPT
                          !.datesFetched =
                             Append(@, [symbol |-> symbol,
                                        dates |-> IF IsArray(transcriptDatesResult)
                                                  THEN transcriptDatesResult.items
                                                  ELSE <<>>])]
            IN /\ oddities' = Spent(reply, DefaultDates)
               /\ IF ~IsArray(transcriptDatesResult) \/ Len(transcriptDatesResult.items) = 0
                  THEN /\ search' = [s EXCEPT !.symbolIndex = @ + 1]
                       /\ pc' = AtSymbol(search.symbolIndex + 1)
                  ELSE /\ search' = [s EXCEPT
                                       !.recentDates = Slice(transcriptDatesResult.items,
                                                             query.lookbackQuarters.n),
                                       !.dateIndex = 1]
                       /\ pc' = "body"
  /\ outcome' = outcome
  /\ SearchFrame

\* { ...mention, symbol: symbol, date: transcriptResult[0].date }
Dated(mentions, symbol, date) ==
  [i \in 1..Len(mentions) |->
     [topic |-> mentions[i].topic, speaker |-> mentions[i].speaker,
      context |-> mentions[i].context, score |-> mentions[i].score,
      symbol |-> symbol, date |-> date]]

\* the count after a transcript with content has been received
CountedBeforeScan(count, scanned) == count + 1

\* the loop left at the first transcript without content
StopOnEmpty(next, hasContent) == IF hasContent THEN next ELSE "summarize"

\* where the loop over the quarters goes after a reply: on, with or without
\* content
AfterQuarter(next, hasContent) == next

\* lines 128-150: one quarter of one symbol
FetchBody ==
  /\ pc = "body"
  /\ LET query == Destructure(probe)
         symbol == query.symbols[search.symbolIndex]
         dateInfo == search.recentDates[search.dateIndex]
         last == search.dateIndex = Len(search.recentDates)
         pcNext == IF last THEN AtSymbol(search.symbolIndex + 1) ELSE "body"
         year == OrElse(Prop(dateInfo, "fiscalYear"), Prop(dateInfo, "year"))
         quarter == Prop(dateInfo, "quarter")
     IN IF dateInfo.t \in {"undefined", "null"}
        THEN \* the property read throws in the try and again in its catch handler
             /\ outcome' = OuterCatch(query)
             /\ pc' = "returned"
             /\ search' = search
             /\ oddities' = oddities
        ELSE IF year.t \in {"undefined", "null"} \/ quarter.t \in {"undefined", "null"}
        THEN \* toString() throws before the request is sent: the quarter is skipped
             /\ search' = [search EXCEPT
                             !.dateIndex = IF last THEN 1 ELSE @ + 1,
                             !.symbolIndex = IF last THEN @ + 1 ELSE @]
             /\ pc' = pcNext
             /\ outcome' = outcome
             /\ oddities' = oddities
        ELSE \E reply \in Choices(BodyReplies(dateInfo), DefaultBody(dateInfo)) :
             \E transcriptResult \in {get(reply)} :
             LET hasContent == /\ IsArray(transcriptResult)
                               /\ Len(transcriptResult.items) > 0
                               /\ Truthy(Prop(transcriptResult.items[1], "content"))
                 first == IF hasContent THEN transcriptResult.items[1] ELSE Undef
             IN \E scanned \in {IF hasContent
                                THEN searchTranscriptContent(
                                       Lines(Prop(first, "content")), search.expandedTopics,
                                       Texts(query.executives.items))
                                ELSE [threw |-> FALSE, mentions |-> {<<>>}]} :
                \E topicMentions \in scanned.mentions :
                  LET found == IF scanned.threw THEN <<>>
                               ELSE Dated(topicMentions, symbol, Prop(first, "date"))
                  IN /\ search' =
                          [Logged(search, reply) EXCEPT
                             !.bodiesFetched =
                                Append(@, [symbol |-> symbol, year |-> Text(year),
                                           quarter |-> Text(quarter)]),
                             !.transcriptsAnalyzedCount =
                                IF hasContent
                                THEN CountedBeforeScan(@, ~scanned.threw) ELSE @,
                             !.allMentions = @ \o found,
                             !.scans =
                                Append(@, [symbol |-> symbol, quarter |-> Text(quarter),
                                           content |-> hasContent,
                                           scanned |-> hasContent /\ ~scanned.threw,
                                           found |-> found]),
                             !.dateIndex = IF last THEN 1 ELSE @ + 1,
                             !.symbolIndex = IF last THEN @ + 1 ELSE @]
                     /\ pc' = AfterQuarter(pcNext, hasContent)
                     /\ outcome' = outcome
                     /\ oddities' = Spent(reply, DefaultBody(dateInfo))
  /\ SearchFrame

\* the list returned without the cut
Unsliced(mentions) ==
  [i \in 1..Len(mentions) |->
     [symbol |-> mentions[i].symbol, date |-> mentions[i].date,
      speaker |-> mentions[i].speaker, topic |-> mentions[i].topic,
      snippet |-> Substring(mentions[i].context, SNIPPET_LENGTH) \o "..."]]

\* allMentions.slice(0, MAX_MENTIONS_TO_RETURN).map(...)
Summarized(mentions) ==
  [i \in 1..Min(MAX_MENTIONS_TO_RETURN, Len(mentions)) |->
     [symbol |-> mentions[i].symbol, date |-> mentions[i].date,
      speaker |-> mentions[i].speaker, topic |-> mentions[i].topic,
      snippet |-> Substring(mentions[i].context, SNIPPET_LENGTH) \o "..."]]

\* lines 153-177: the summary that is returned
Summarize ==
  /\ pc = "summarize"
  /\ LET query == Destructure(probe)
     IN \E sorted \in SortByScore(search.allMentions) :
          \E summarizedMentions \in {Summarized(sorted)} :
            /\ search' = [search EXCEPT !.allMentions = sorted]
            /\ outcome' =
                 [query |-> query,
                  resultsSummary |-> summarizedMentions,
                  totalMatchesFound |-> Len(sorted),
                  companiesSearched |-> Len(query.symbols),
                  transcriptsAnalyzed |-> search.transcriptsAnalyzedCount,
                  summary |-> "Found " \o ToString(Len(sorted))
                              \o " potential mentions of \"" \o Text(query.topic)
                              \o "\". Returning the top "
                              \o ToString(Len(summarizedMentions))
                              \o " most relevant snippets."]
  /\ pc' = "returned"
  /\ oddities' = oddities
  /\ SearchFrame

\* the same call once more, the upstream services answering as they did
Rerun ==
  /\ pc = "returned"
  /\ search.run = 1
  /\ search' = NewSearch(2, search.log, outcome)
  /\ pc' = "expand"
  /\ outcome' = Undef
  /\ oddities' = oddities
  /\ SearchFrame

SearchNext ==
  \/ ExpandTopic
  \/ FetchDates
  \/ FetchBody
  \/ Summarize
  \/ Rerun

SearchSpec == SearchInit /\ [][SearchNext]_vars

(***************************************************************************)
(* One call of executeTool for a single-request tool, with fmpClient.get   *)
(* (lib/fmp_client.ts) taken step by step: the URL, the request, the       *)
(* reading of the response, the catch.                                     *)
(***************************************************************************)
API_KEY == "secret"

\* new URL(base + endpoint), searchParams.append("apikey", ...), then one
\* append per parameter that is not undefined
ClientUrl(endpoint, params) ==
  LET appended[i \in 0..Len(params)] ==
        IF i = 0 THEN FmpStable \o endpoint \o "?apikey=" \o FormEncode(API_KEY)
        ELSE IF params[i].value.t = "undefined" THEN appended[i - 1]
        ELSE appended[i - 1] \o "&" \o FormEncode(params[i].key) \o "="
               \o FormEncode(Text(params[i].value))
  IN appended[Len(params)]

\* the arguments a planner may give each tool
Tickers == {"SPOT", "M&M.NS"}

ToolArgsOf(toolName) ==
  CASE toolName = "resolveSymbol" ->
         {Obj([query |-> Str(q)]) : q \in {"Spotify", "AT&T", "Johnson Controls"}}
    [] toolName = "getTranscript" ->
         {Obj([symbol |-> Str(t), year |-> Num(2024), quarter |-> Num(1)]) : t \in Tickers}
    [] toolName = "getStatement" ->
         {Serialize(Obj([symbol |-> Str(t), statement |-> Str("income"),
                         period |-> p, limit |-> l])) :
            t \in Tickers, p \in {Undef, Str("quarter")}, l \in {Undef, Num(10)}}
    [] toolName = "getFinancialGrowth" ->
         {Serialize(Obj([symbol |-> Str(t), metric |-> Str("revenue"), years |-> y,
                         period |-> p])) :
            t \in Tickers, p \in {Undef, Str("quarter")},
            y \in {Arr(<<Num(5)>>), Arr(<<Num(3), Num(5), Num(10)>>)}}
    [] toolName = "getKeyMetrics" ->
         {Serialize(Obj([symbol |-> Str(t), limit |-> l])) :
            t \in Tickers, l \in {Undef, Num(3)}}
    [] toolName = "searchNews" ->
         {Serialize(Obj([symbols |-> y, limit |-> l])) :
            y \in {Arr(<<Str("MSFT"), Str("META")>>), Str("MSFT")},
            l \in {Undef, Num(15)}}
    [] OTHER -> {Obj([symbol |-> Str(t)]) : t \in Tickers}

ExecProbes ==
  UNION {{[toolName |-> toolName, toolArgs |-> args] : args \in ToolArgsOf(toolName)} :
           toolName \in FetchTools \cup {"lookupInsiders"}}

\* what the network may do with a request: reject it, or answer with a status
\* and a body that is a JSON array, other text, or cannot be read
Responses ==
  {[kind |-> "rejects", status |-> 0, body |-> "none"]}
    \cup [kind : {"response"}, status : {200, 404, 429, 500},
          body : {"rows", "empty", "text", "unreadable"}]

\* response.ok
Ok(answer) == answer.status \in 200..299

ExecInit ==
  /\ variant = "route.ts"
  /\ request = [json |-> FALSE, messages |-> Undef]
  /\ pc = "call"
  /\ Fresh
  /\ probe \in ExecProbes
  /\ outcome = Undef
  /\ search = Undef
  /\ client = Undef
  /\ handlers = Undef
  /\ stores = Undef
  /\ hook = Undef
  /\ producer = Undef
  /\ service = Undef
  /\ chat = Undef

ExecFrame ==
  UNCHANGED <<producer, service, chat, hook, handlers, stores, search, rawResults, probe, variant, request,
              conversationHistory, allToolsUsed, reasoningTrace, toolStepCounter, step, plannerDecision,
              toolIndex, toolArgs, toolResponses, response, events, closed, planCalls,
              synthCalls, fetches, synthInput, executedIds, exit, failure, oddities>>

\* the switch of executeTool up to the call of fmpClient.get, and the URL get
\* builds
CallTool ==
  /\ pc = "call"
  /\ IF probe.toolName \in FetchTools
     THEN LET sent == ToolRequest(probe.toolName, probe.toolArgs)
          IN /\ client' = [sourceUrl |-> SourceUrl(probe.toolName, probe.toolArgs),
                           endpoint |-> sent.endpoint, params |-> sent.params,
                           url |-> ClientUrl(sent.endpoint, sent.params),
                           response |-> Null, error |-> "", failed |-> FALSE,
                           toolResult |-> Undef]
             /\ pc' = "fetch"
             /\ outcome' = outcome
     ELSE /\ outcome' = [toolResult |-> Obj([error |-> Str("Unknown tool: " \o probe.toolName)]),
                         sourceUrl |-> "Unknown tool"]
          /\ pc' = "returned"
          /\ client' = client
  /\ ExecFrame

\* await fetch(url.toString()), then if (!response.ok)
Fetch ==
  /\ pc = "fetch"
  /\ \E answer \in Responses :
       IF answer.kind = "rejects"
       THEN /\ client' = [client EXCEPT !.error = "TypeError: fetch failed",
                                        !.failed = TRUE]
            /\ pc' = "catch"
       ELSE /\ client' = [client EXCEPT !.response = answer, !.failed = ~Ok(answer)]
            /\ pc' = IF Ok(answer) THEN "json" ELSE "text"
  /\ outcome' = outcome
  /\ ExecFrame

\* const errorText = await response.text(); throw new Error(...)
ReadErrorText ==
  /\ pc = "text"
  /\ client' = [client EXCEPT
                  !.error =
                     IF client.response.body = "unreadable"
                     THEN "TypeError: terminated"
                     ELSE "Error: FMP API request failed with status "
                            \o ToString(client.response.status) \o ": "
                            \o client.response.body]
  /\ pc' = "catch"
  /\ outcome' = outcome
  /\ ExecFrame

\* const data = await response.json(); return data
ReadJson ==
  /\ pc = "json"
  /\ IF client.response.body \in {"rows", "empty"}
     THEN /\ client' = [client EXCEPT
                          !.toolResult = IF client.response.body = "rows"
                                         THEN Arr(<<Row>>) ELSE Arr(<<>>)]
          /\ pc' = "return"
     ELSE /\ client' = [client EXCEPT
                          !.error = IF client.response.body = "unreadable"
                                    THEN "TypeError: terminated"
                                    ELSE "SyntaxError: Unexpected token",
                          !.failed = TRUE]
          /\ pc' = "catch"
  /\ outcome' = outcome
  /\ ExecFrame

\* the error thrown on to the caller
Rethrown(error) == [threw |-> TRUE, value |-> Undef]

\* catch (error) { return { error: `Failed to fetch from FMP API: ...` } }
ErrorObject(error) ==
  [threw |-> FALSE,
   value |-> Obj([error |-> Str("Failed to fetch from FMP API: " \o error)])]

CatchError ==
  /\ pc = "catch"
  /\ LET caught == ErrorObject(client.error)
     IN IF caught.threw
        THEN /\ pc' = "rejected"
             /\ client' = client
        ELSE /\ client' = [client EXCEPT !.toolResult = caught.value]
             /\ pc' = "return"
  /\ outcome' = outcome
  /\ ExecFrame

\* return { toolResult, sourceUrl }
ReturnResult ==
  /\ pc = "return"
  /\ outcome' = [toolResult |-> client.toolResult, sourceUrl |-> client.sourceUrl]
  /\ pc' = "returned"
  /\ client' = client
  /\ ExecFrame

ExecNext ==
  \/ CallTool
  \/ Fetch
  \/ ReadErrorText
  \/ ReadJson
  \/ CatchError
  \/ ReturnResult

ExecSpec == ExecInit /\ [][ExecNext]_vars

(***************************************************************************)
(* Two requests handled at the same time (app/api/chat/route.ts).  POST    *)
(* runs without interruption from one await to the next, so a handler      *)
(* takes a step when the body of its request, a planner completion, a      *)
(* provider reply or the synthesizer completion arrives.  Tool results are *)
(* left out: what matters here is whose entries land where.                *)
(***************************************************************************)
Handlers == {1, 2}

\* the planner turns with tool calls of one request
MaxTurns == 2

\* one module-wide set of locals for every request
Shared(r) == 1

\* the conversation, tools list, counter and trace a request works on: those
\* declared by its own call of POST
Own(r) == r

HandlerMessages(r) ==
  IF r = 1 THEN <<UserMessage("What is Spotify's revenue?")>>
  ELSE <<UserMessage("And Apple?"), UserMessage("What is Apple's margin?")>>

\* a tool call of a planner completion of request r
HandlerCall(r, turn, i, name) ==
  [id |-> <<r, turn, i>>, name |-> name, arguments |-> SymbolJson]

HandlerPlans(r, turn) ==
  IF r = 1
  THEN {<<HandlerCall(r, turn, 1, "resolveSymbol")>>,
        <<HandlerCall(r, turn, 1, "resolveSymbol"), HandlerCall(r, turn, 2, "getQuote")>>}
  ELSE {<<HandlerCall(r, turn, 1, "getKeyMetrics")>>,
        <<HandlerCall(r, turn, 1, "getKeyMetrics"), HandlerCall(r, turn, 2, "searchNews")>>}

NewStore(messages) ==
  [conversationHistory |-> messages, allToolsUsed |-> <<>>, reasoningTrace |-> <<>>,
   toolStepCounter |-> 0]

ConcInit ==
  /\ variant = "route.ts"
  /\ request = [json |-> FALSE, messages |-> Undef]
  /\ pc = "handlers"
  /\ Fresh
  /\ probe = Undef
  /\ outcome = Undef
  /\ search = Undef
  /\ client = Undef
  /\ hook = Undef
  /\ producer = Undef
  /\ service = Undef
  /\ chat = Undef
  /\ handlers = [r \in Handlers |->
                   [pc |-> "receive", plannerDecision |-> <<>>, toolIndex |-> 0,
                    step |-> 0, toolResponses |-> <<>>, turns |-> 0, tools |-> <<>>,
                    overlapped |-> FALSE, metadata |-> Undef]]
  /\ stores = [r \in Handlers |-> NewStore(<<>>)]

ConcFrame ==
  UNCHANGED <<producer, service, chat, hook, client, search, rawResults, probe, outcome, pc, variant, request,
              conversationHistory, allToolsUsed, reasoningTrace, toolStepCounter, step,
              plannerDecision, toolIndex, toolArgs, toolResponses, response, events,
              closed, planCalls, synthCalls, fetches, synthInput, executedIds, exit,
              failure, oddities>>

\* another request is between two of its awaits
OthersInFlight(r) ==
  \E o \in Handlers \ {r} : handlers[o].pc \in {"plan", "fetch", "synthesize"}

\* lines 212-230: allToolsUsed.push, toolStepCounter++, reasoningTrace.push
Started(store, call) ==
  [store EXCEPT
     !.allToolsUsed = Append(@, call.name),
     !.toolStepCounter = @ + 1,
     !.reasoningTrace =
        Append(@, [step |-> store.toolStepCounter + 1, type |-> "tool_step",
                   toolName |-> call.name, toolArgs |-> JSONParse(call.arguments).value,
                   result |-> Null])]

\* lines 425-435: the result of the call that has just run
Filled(store, id) ==
  LET trace == store.reasoningTrace
  IN IF Len(trace) > 0 /\ trace[Len(trace)].step = store.toolStepCounter
     THEN [store EXCEPT !.reasoningTrace[Len(trace)].result = id]
     ELSE store

\* lines 126-146: the body arrives, the locals are declared, the planner is
\* asked
Begin(r) ==
  /\ handlers[r].pc = "receive"
  /\ stores' = [stores EXCEPT ![Own(r)] = NewStore(HandlerMessages(r))]
  /\ handlers' = [handlers EXCEPT ![r].pc = "plan",
                                  ![r].overlapped = @ \/ OthersInFlight(r)]
  /\ ConcFrame

\* lines 186-230: the planner's decision arrives; without tool calls the loop
\* is left and the synthesizer is asked, else the first call is started
PlannerReplies(r) ==
  /\ handlers[r].pc = "plan"
  /\ \E decision \in {<<>>} \cup (IF handlers[r].turns < MaxTurns
                                  THEN HandlerPlans(r, handlers[r].turns + 1)
                                  ELSE {}) :
       LET store == stores[Own(r)]
       IN IF decision = <<>>
          THEN /\ stores' =
                    [stores EXCEPT ![Own(r)].reasoningTrace =
                       IF store.toolStepCounter > 0
                       THEN Append(@, [step |-> store.toolStepCounter + 1,
                                       type |-> "completion"])
                       ELSE @]
               /\ handlers' = [handlers EXCEPT ![r].pc = "synthesize",
                                               ![r].overlapped = @ \/ OthersInFlight(r)]
          ELSE /\ stores' = [stores EXCEPT ![Own(r)] = Started(store, decision[1])]
               /\ handlers' = [handlers EXCEPT
                                 ![r].pc = "fetch",
                                 ![r].plannerDecision = decision,
                                 ![r].toolIndex = 1,
                                 ![r].toolResponses = <<>>,
                                 ![r].turns = @ + 1,
                                 ![r].tools = Append(@, decision[1].name),
                                 ![r].overlapped = @ \/ OthersInFlight(r)]
  /\ ConcFrame

\* lines 232-567: the provider's reply arrives; the result goes to the trace
\* and to toolResponses, then the next call of the turn is started or the turn
\* is pushed onto the conversation and the planner or the synthesizer is asked
FetchReplies(r) ==
  /\ handlers[r].pc = "fetch"
  /\ LET h == handlers[r]
         call == h.plannerDecision[h.toolIndex]
         store == Filled(stores[Own(r)], call.id)
         responses == Append(h.toolResponses,
                             [tool_call_id |-> call.id, role |-> "tool", content |-> call.id])
     IN IF h.toolIndex < Len(h.plannerDecision)
        THEN /\ stores' = [stores EXCEPT
                             ![Own(r)] = Started(store, h.plannerDecision[h.toolIndex + 1])]
             /\ handlers' = [handlers EXCEPT
                               ![r].toolIndex = @ + 1,
                               ![r].toolResponses = responses,
                               ![r].tools = Append(@, h.plannerDecision[h.toolIndex + 1].name),
                               ![r].overlapped = @ \/ OthersInFlight(r)]
        ELSE /\ stores' = [stores EXCEPT
                             ![Own(r)] =
                                [store EXCEPT !.conversationHistory =
                                   @ \o <<AssistantMessage(h.plannerDecision)>> \o responses]]
             /\ handlers' = [handlers EXCEPT
                               ![r].toolResponses = responses,
                               ![r].step = @ + 1,
                               ![r].pc = IF h.step + 1 < maxSteps THEN "plan"
                                         ELSE "synthesize",
                               ![r].overlapped = @ \/ OthersInFlight(r)]
  /\ ConcFrame

\* lines 575-640: the synthesizer's completion arrives and the metadata event
\* is built
SynthReplies(r) ==
  /\ handlers[r].pc = "synthesize"
  /\ handlers' = [handlers EXCEPT
                    ![r].pc = "done",
                    ![r].overlapped = @ \/ OthersInFlight(r),
                    ![r].metadata =
                       [type |-> "metadata",
                        toolsUsed |-> stores[Own(r)].allToolsUsed,
                        stepCount |-> Len(stores[Own(r)].allToolsUsed),
                        reasoning |-> stores[Own(r)].reasoningTrace]]
  /\ stores' = stores
  /\ ConcFrame

ConcNext ==
  \E r \in Handlers :
    \/ Begin(r)
    \/ PlannerReplies(r)
    \/ FetchReplies(r)
    \/ SynthReplies(r)

ConcSpec == ConcInit /\ [][ConcNext]_vars

\* a candidate on a major US exchange, quoted in USD, its symbol without a dot
Preferred(r) ==
  /\ Prop(r, "exchange") \in {Str("NASDAQ"), Str("NYSE"), Str("AMEX")}
  /\ Prop(r, "currency") = Str("USD")
  /\ \A i \in 1..Len(Prop(r, "symbol").s) : SubSeq(Prop(r, "symbol").s, i, i) # "."

\* the candidate the processing is to report
Expected(items) ==
  IF \E i \in 1..Len(items) : Preferred(items[i])
  THEN items[CHOOSE i \in 1..Len(items) :
               Preferred(items[i]) /\ \A j \in 1..(i - 1) : ~Preferred(items[j])]
  ELSE items[1]

\* C19: for a non-empty candidate list both processors report found = true with
\* the ticker of the first candidate on NASDAQ/NYSE/AMEX, in USD, without a dot
\* in its symbol, and the ticker of the first candidate when there is none.
C19_FirstPreferredCandidate ==
  (pc = "probed" /\ probe.toolName = "resolveSymbol"
     /\ IsArray(probe.toolResult) /\ Len(probe.toolResult.items) > 0)
    => /\ Prop(outcome, "found") = Bool(TRUE)
       /\ Prop(outcome, "ticker") = Prop(Expected(probe.toolResult.items), "symbol")
       /\ Prop(outcome, "exchange") = Prop(Expected(probe.toolResult.items), "exchange")
       /\ Prop(outcome, "currency") = Prop(Expected(probe.toolResult.items), "currency")

C19_Witness ==
  /\ pc = "probed" /\ probe.toolName = "resolveSymbol" /\ IsArray(probe.toolResult)
  /\ Len(probe.toolResult.items) = 3
  /\ ~Preferred(probe.toolResult.items[1])
  /\ Preferred(probe.toolResult.items[2]) /\ Preferred(probe.toolResult.items[3])
  /\ probe.toolResult.items[2] # probe.toolResult.items[3]
  /\ Prop(outcome, "ticker") = Prop(probe.toolResult.items[2], "symbol")
  /\ Prop(outcome, "exchange") = Prop(probe.toolResult.items[2], "exchange")

\* the tool messages written so far, appended to the conversation or not yet
ToolMessages ==
  SelectSeq(conversationHistory \o toolResponses, LAMBDA m : m.role = "tool")

\* the executed calls for which the provider returned zero candidates
ZeroCandidateCalls ==
  {i \in 1..Len(rawResults) :
     allToolsUsed[i] = "resolveSymbol" /\ rawResults[i] = Arr(<<>>)}

NotFoundMessage(content) ==
  /\ Prop(content, "found") = Bool(FALSE)
  /\ Prop(content, "message") = Str("No ticker symbol found for \"Spotify\"")
  /\ Truthy(Prop(content, "sourceUrl"))
  /\ Truthy(Prop(content, "toolDescription"))
  /\ "error" \notin DOMAIN Props(content)

\* C20: when the provider returns zero candidates for resolveSymbol, the tool
\* message carries found = false, the 'No ticker symbol found' message, the
\* provenance fields and no error field, and the step that handles the reply
\* leaves the loop running: no failure, no response yet.
C20_ZeroCandidatesNotAnError ==
  /\ [](variant \in Streaming =>
          \A i \in ZeroCandidateCalls :
            \E j \in 1..Len(ToolMessages) :
              /\ ToolMessages[j].tool_call_id = executedIds[i]
              /\ NotFoundMessage(ToolMessages[j].content))
  /\ [][(variant \in Streaming /\ Len(rawResults') > Len(rawResults)
           /\ rawResults'[Len(rawResults')] = Arr(<<>>)
           /\ plannerDecision[toolIndex].name = "resolveSymbol")
          => /\ pc' \in {"execute", "plan", "synthesize"}
             /\ failure' = "none" /\ response' = NoResponse]_vars

C20_Witness ==
  /\ variant = "route.ts" /\ ZeroCandidateCalls # {} /\ pc = "done"
  /\ response = EventStream /\ events[Len(events)].type = "done"

(***************************************************************************)
(* The transcript search: what a run has fetched and what it returns.      *)
(***************************************************************************)
Returned == pc = "returned"
IsSummary(result) == "resultsSummary" \in DOMAIN result
IsErrorShaped(result) == DOMAIN result = {"error", "query"}

\* the requests for a transcript body sent for one symbol
BodiesOf(symbol) ==
  {i \in 1..Len(search.bodiesFetched) : search.bodiesFetched[i].symbol = symbol}

\* C11: for a positive lookbackQuarters a run sends at most one dates request
\* per symbol and at most lookbackQuarters body requests per symbol, for the
\* first lookbackQuarters entries of the dates list, hence at most
\* |symbols| * lookbackQuarters in all; a symbol without dates has no body
\* request.
C11_FetchesBounded ==
  LET query == Destructure(probe)
      lookback == query.lookbackQuarters.n
      symbols == {query.symbols[i] : i \in 1..Len(query.symbols)}
  IN /\ \A symbol \in symbols :
          /\ Cardinality({i \in 1..Len(search.datesFetched) :
                            search.datesFetched[i].symbol = symbol}) <= 1
          /\ Cardinality(BodiesOf(symbol)) <= lookback
          /\ \A i \in BodiesOf(symbol) :
               search.bodiesFetched[i].quarter \in {ToString(k) : k \in 1..lookback}
     /\ Len(search.bodiesFetched) <= Len(query.symbols) * lookback
     /\ \A i \in 1..Len(search.bodiesFetched) :
          \E d \in 1..Len(search.datesFetched) :
            /\ search.datesFetched[d].symbol = search.bodiesFetched[i].symbol
            /\ Len(search.datesFetched[d].dates) > 0

\* a run over two symbols, the dates list of one longer than lookbackQuarters
\* and the other without dates, came to its end
C11_Witness ==
  /\ Returned
  /\ IsSummary(outcome)
  /\ \E a, b \in 1..Len(search.datesFetched) :
       /\ Len(search.datesFetched[a].dates) > Destructure(probe).lookbackQuarters.n
       /\ Len(search.datesFetched[b].dates) = 0
  /\ Len(search.bodiesFetched) = Destructure(probe).lookbackQuarters.n

\* C12: the mention list a run returns has at most 15 entries whatever the
\* number of symbols and quarters, and each scanned transcript adds at most
\* 8 mentions to the pool.
C12_MentionsCapped ==
  /\ \A i \in 1..Len(search.scans) : Len(search.scans[i].found) <= 8
  /\ (Returned /\ IsSummary(outcome)) => Len(outcome.resultsSummary) <= 15

\* a run returned 15 mentions out of a larger pool, one transcript of more
\* than 8 matching paragraphs having added 8
C12_Witness ==
  /\ Returned
  /\ IsSummary(outcome)
  /\ outcome.totalMatchesFound > 15
  /\ Len(outcome.resultsSummary) = 15
  /\ \E i \in 1..Len(search.scans) :
       /\ Len(search.scans[i].found) = 8
       /\ Len(FuseSearch(Paragraphs(LongTranscript), search.expandedTopics)) > 8

\* the executive names supplied with the call
Supplied == {Text(Destructure(probe).executives.items[k]) :
               k \in 1..Len(Destructure(probe).executives.items)}

\* the paragraph with this text has one of the names in itself or in the
\* three paragraphs before it
NamedNearby(text, names) ==
  \E transcript \in {LongTranscript, ShortTranscript} :
    LET kept == {l \in 1..Len(transcript) : transcript[l].length > 50}
    IN \E l \in kept :
         /\ transcript[l].text = text
         /\ \E b \in kept :
              /\ b <= l
              /\ Cardinality({m \in kept : b < m /\ m <= l}) <= 3
              /\ transcript[b].names \cap names # {}

\* C13: with a non-empty executives list every mention found and every
\* mention returned has one of the supplied names as its speaker, never
\* "Unknown", and belongs to a paragraph with a supplied name in its window.
C13_SpeakerIsSuppliedExecutive ==
  Supplied # {} =>
    /\ \A i \in 1..Len(search.scans) :
         \A k \in 1..Len(search.scans[i].found) :
           /\ search.scans[i].found[k].speaker \in Supplied \ {"Unknown"}
           /\ NamedNearby(search.scans[i].found[k].topic, Supplied)
    /\ (Returned /\ IsSummary(outcome)) =>
         \A k \in 1..Len(outcome.resultsSummary) :
           outcome.resultsSummary[k].speaker \in Supplied \ {"Unknown"}

\* a run with two supplied names returned mentions spoken by the second one
\* from a transcript in which other matching paragraphs have no name nearby
C13_Witness ==
  /\ Returned
  /\ IsSummary(outcome)
  /\ Cardinality(Supplied) = 2
  /\ Len(outcome.resultsSummary) > 0
  /\ \E k \in 1..Len(outcome.resultsSummary) :
       outcome.resultsSummary[k].speaker = "Cook"
  /\ \E i \in 1..Len(search.scans) :
       /\ Len(search.scans[i].found) > 0
       /\ \E h \in 1..Len(FuseSearch(Paragraphs(LongTranscript), search.expandedTopics)) :
            LET hit == FuseSearch(Paragraphs(LongTranscript), search.expandedTopics)[h]
                text == Paragraphs(LongTranscript)[hit.item].text
            IN /\ h <= 15
               /\ ~NamedNearby(text, Supplied)
               /\ \A k \in 1..Len(search.scans[i].found) :
                    /\ search.scans[i].found[k].topic # text
                    /\ search.scans[i].found[k].topic
                         \in {LongTranscript[l].text : l \in 1..Len(LongTranscript)}

C15_AlwaysAResult ==
  Returned =>
    \/ /\ IsSummary(outcome)
       /\ outcome.query = Destructure(probe)
    \/ /\ IsErrorShaped(outcome)
       /\ outcome.query = Destructure(probe)
       /\ outcome.error # ""

\* a run that threw inside the retrieval (a dates entry that is null) returned
\* the error-shaped object
C15_Witness ==
  /\ Returned
  /\ IsErrorShaped(outcome)
  /\ \E i \in 1..Len(search.recentDates) : search.recentDates[i] = Null

\* the entries of a dates list a transcript can be requested for
WellFormed(entry) ==
  /\ entry.t = "object"
  /\ "quarter" \in DOMAIN entry.f
  /\ {"fiscalYear", "year"} \cap DOMAIN entry.f # {}

\* the quarters selected for a symbol: the first lookbackQuarters entries of
\* its dates list
SelectedQuarters(fetched) ==
  {Text(fetched.dates[k].f.quarter) :
     k \in {n \in 1..Len(fetched.dates) :
              /\ n <= Destructure(probe).lookbackQuarters.n
              /\ WellFormed(fetched.dates[n])}}

\* the patterns of the call are all accepted
ValidPatterns == Supplied \cap InvalidPatterns = {}

\* a returned mention that was found by this scan
ReturnedFrom(scan, k) ==
  \E m \in 1..Len(scan.found) :
    /\ outcome.resultsSummary[k].symbol = scan.found[m].symbol
    /\ outcome.resultsSummary[k].date = scan.found[m].date
    /\ outcome.resultsSummary[k].topic = scan.found[m].topic
    /\ outcome.resultsSummary[k].speaker = scan.found[m].speaker

\* C16: a transcript request that fails or comes back empty skips that
\* quarter only: a run that returns a summary has asked for the dates of
\* every symbol and for every selected quarter of every symbol, has scanned
\* every transcript that came with content, and counts and returns the
\* mentions of all of them (the returned list being the best 15 of the pool).
C16_OnlyTheQuarterIsSkipped ==
  (Returned /\ IsSummary(outcome)) =>
    /\ Len(search.datesFetched) = Len(Destructure(probe).symbols)
    /\ \A d \in 1..Len(search.datesFetched) :
         {search.bodiesFetched[i].quarter : i \in BodiesOf(search.datesFetched[d].symbol)}
           = SelectedQuarters(search.datesFetched[d])
    /\ Len(search.scans) = Len(search.bodiesFetched)
    /\ \A i \in 1..Len(search.scans) :
         (search.scans[i].content /\ ValidPatterns) => search.scans[i].scanned
    /\ \A i \in 1..Len(search.scans) :
         \A m \in 1..Len(search.scans[i].found) :
           \E k \in 1..Len(search.allMentions) :
             search.allMentions[k] = search.scans[i].found[m]
    /\ outcome.totalMatchesFound <= 15 =>
         \A i \in 1..Len(search.scans) :
           Len(search.scans[i].found) > 0 =>
             \E k \in 1..Len(outcome.resultsSummary) : ReturnedFrom(search.scans[i], k)

\* a run whose first transcript request failed or came back without content
\* went on to a later quarter of the same symbol and to the next symbol, and
\* returned mentions found in both
C16_Witness ==
  /\ Returned
  /\ IsSummary(outcome)
  /\ \E i, j, l \in 1..Len(search.scans) :
       /\ i < j /\ j < l
       /\ ~search.scans[i].content
       /\ search.scans[j].symbol = search.scans[i].symbol
       /\ search.scans[l].symbol # search.scans[i].symbol
       /\ \E k \in 1..Len(outcome.resultsSummary) : ReturnedFrom(search.scans[j], k)
       /\ \E k \in 1..Len(outcome.resultsSummary) : ReturnedFrom(search.scans[l], k)

\* C17: the counts of a returned summary reflect successful retrievals only:
\* transcriptsAnalyzed is the number of transcript requests that came back
\* with content and were scanned to the end, and companiesSearched leaves out
\* every symbol whose dates request failed or came back empty.
C17_CountsReflectSuccesses ==
  (Returned /\ IsSummary(outcome)) =>
    /\ outcome.transcriptsAnalyzed =
         Cardinality({i \in 1..Len(search.scans) :
                        search.scans[i].content /\ search.scans[i].scanned})
    /\ outcome.companiesSearched =
         Cardinality({d \in 1..Len(search.datesFetched) :
                        Len(search.datesFetched[d].dates) > 0})

\* the topic of the call
Topic == Text(Destructure(probe).topic)

\* the expansion request got no usable list: it failed, or its reply is not
\* JSON, or has no topics array
ExpansionUnusable ==
  \/ search.log[1].kind = "refused"
  \/ search.log[1].content \in {Null, Str(TruncatedTopicsJson), Str(TopicsTextJson)}

C18_Expanded ==
  pc # "expand" =>
    IF Topic = ""
    THEN search.expansionCalls = 0
    ELSE /\ search.expansionCalls = 1
         /\ \E i \in 1..Len(search.expandedTopics) : search.expandedTopics[i] = Topic
         /\ \A i, j \in 1..Len(search.expandedTopics) :
              search.expandedTopics[i] = search.expandedTopics[j] => i = j
         /\ ExpansionUnusable => search.expandedTopics = <<Topic>>

C18_Proceeds ==
  pc = "expand" => pc' = "dates"

\* C18: topic expansion is best-effort.  For a non-empty topic the expanded
\* list holds the topic and no value twice; when the expansion request fails,
\* or answers with text that is not JSON or without a topics array, the list
\* is the topic alone; in every case the search goes on to the dates of the
\* first symbol.  For an empty topic no expansion request is made.
C18_ExpansionBestEffort == []C18_Expanded /\ [][C18_Proceeds]_vars

\* a run expanded its topic from a reply that repeats the topic and a second
\* value, and came to its end
C18_Witness ==
  /\ Returned
  /\ IsSummary(outcome)
  /\ Topic # ""
  /\ search.log[1] = DefaultExpansion
  /\ Len(search.expandedTopics) = 2

(***************************************************************************)
(* Quote processing.                                                       *)
(***************************************************************************)
QuoteProbed == pc = "probed" /\ probe.toolName = "getQuote"
NonEmptyArray(v) == v.t = "array" /\ Len(v.items) > 0

\* C30: the processed result of getQuote for a non-empty array is an object
\* of the fields of the first element plus sourceUrl and toolDescription;
\* an empty array and a result that is no array come out unchanged.
C30_QuoteFlattened ==
  QuoteProbed =>
    IF NonEmptyArray(probe.toolResult)
    THEN LET first == probe.toolResult.items[1].f
         IN /\ outcome.t = "object"
            /\ DOMAIN outcome.f = DOMAIN first \cup {"sourceUrl", "toolDescription"}
            /\ \A k \in DOMAIN first \ {"sourceUrl", "toolDescription"} :
                 outcome.f[k] = first[k]
            /\ outcome.f.sourceUrl =
                 Str(ProbeSourceUrl(probe.processor, "getQuote", ArgsFor("getQuote")))
            /\ outcome.f.toolDescription = Str("Stock Quote API")
    ELSE outcome = probe.toolResult

\* a reply of two different rows was processed as a quote
C30_Witness ==
  /\ QuoteProbed
  /\ NonEmptyArray(probe.toolResult)
  /\ Len(probe.toolResult.items) = 2
  /\ probe.toolResult.items[1] # probe.toolResult.items[2]

(***************************************************************************)
(* The ranking of the returned mentions.                                   *)
(***************************************************************************)
\* the mentions the scans of a run have added to the pool
Pool == UNION {{search.scans[i].found[m] : m \in 1..Len(search.scans[i].found)} :
                 i \in 1..Len(search.scans)}

\* the first 200 characters of a context, then an ellipsis
SnippetOf(context) ==
  (IF Len(context) <= 200 THEN context ELSE SubSeq(context, 1, 200)) \o "..."

\* C29: the returned list is the first min(15, n) of the n pooled mentions
\* in ascending order of score: no mention left out has a lower score than
\* one returned, and each snippet is the first 200 characters of the
\* mention's context followed by an ellipsis.
C29_BestFifteenByScore ==
  (Returned /\ IsSummary(outcome)) =>
    LET ranked == search.allMentions
        n == Cardinality(Pool)
        returned == outcome.resultsSummary
    IN /\ Len(ranked) = n
       /\ {ranked[k] : k \in 1..Len(ranked)} = Pool
       /\ outcome.totalMatchesFound = n
       /\ Len(returned) = (IF n < 15 THEN n ELSE 15)
       /\ \A i, j \in 1..Len(ranked) : i < j => ranked[i].score <= ranked[j].score
       /\ \A k \in 1..Len(returned) :
            /\ returned[k].symbol = ranked[k].symbol
            /\ returned[k].date = ranked[k].date
            /\ returned[k].speaker = ranked[k].speaker
            /\ returned[k].topic = ranked[k].topic
            /\ returned[k].snippet = SnippetOf(ranked[k].context)
       /\ \A i \in (Len(returned) + 1)..Len(ranked) :
            \A k \in 1..Len(returned) : ranked[i].score >= ranked[k].score

\* a run over two symbols returned 15 mentions of a larger pool whose scores
\* differ, with contexts longer than 200 characters; the pool was not made
\* in order of score
C29_Witness ==
  /\ Returned
  /\ IsSummary(outcome)
  /\ Cardinality(Pool) > 15
  /\ Cardinality({m.symbol : m \in Pool}) = 2
  /\ \E a, b \in Pool : a.score < b.score
  /\ \A k \in 1..Len(outcome.resultsSummary) : Len(search.allMentions[k].context) > 200
  /\ \E i, j \in 1..Len(search.scans) :
       /\ i < j
       /\ \E a \in 1..Len(search.scans[i].found) :
            \E b \in 1..Len(search.scans[j].found) :
              search.scans[j].found[b].score < search.scans[i].found[a].score

(***************************************************************************)
(* The reasoning trace and the conversation of one request.                *)
(***************************************************************************)
\* the planner turns of the conversation: the positions of its assistant
\* messages
Turns == {i \in 1..Len(conversationHistory) : conversationHistory[i].role = "assistant"}

\* the tool-step records of the trace, in trace order
ToolSteps == SelectSeq(reasoningTrace, LAMBDA r : r.type = "tool_step")

\* C25: the records of the reasoning trace are numbered 1, 2, 3, ... in trace
\* order over the whole loop: the n-th tool call executed has step n, in
\* whichever planner turn it ran and however many calls the turns held.
C25_TraceStepsCountUp ==
  /\ \A i \in 1..Len(reasoningTrace) : reasoningTrace[i].step = i
  /\ \A n \in 1..Len(ToolSteps) :
       /\ ToolSteps[n].step = n
       /\ ToolSteps[n].toolName = allToolsUsed[n]

\* a request ran a turn of two calls and then a turn of one, so that the
\* third record belongs to the second planner turn, and finished
C25_Witness ==
  /\ pc = "done"
  /\ Len(ToolSteps) >= 3
  /\ \E a, b \in Turns :
       /\ a < b
       /\ Len(conversationHistory[a].tool_calls) = 2
       /\ \A c \in Turns : c >= a
  /\ reasoningTrace[Len(reasoningTrace)].type = "completion"

\* the metadata event has been emitted
MetadataEmitted == Len(events) >= 1 /\ events[1].type = "metadata"

\* C26: a tool-step record is made before its call runs and completed right
\* after it: at any time the records of the calls that have run carry the
\* summary of their own call's result and only the record of a call still
\* running has none, so that every tool-step record of the metadata event
\* has a result.
C26_RecordsCompletedInPlace ==
  variant \in Streaming =>
    /\ Len(ToolSteps) - Len(executedIds) \in {0, 1}
    /\ \A n \in 1..Len(ToolSteps) :
         IF n <= Len(executedIds)
         THEN ToolSteps[n].result = StepResult(rawResults[n])
         ELSE ToolSteps[n].result = Null
    /\ MetadataEmitted =>
         \A i \in 1..Len(events[1].reasoning) :
           events[1].reasoning[i].type = "tool_step"
             => events[1].reasoning[i].result # Null

\* the metadata event went out with two tool-step records whose results
\* differ
C26_Witness ==
  /\ MetadataEmitted
  /\ \E i, j \in 1..Len(events[1].reasoning) :
       /\ i < j
       /\ events[1].reasoning[i].type = "tool_step"
       /\ events[1].reasoning[j].type = "tool_step"
       /\ events[1].reasoning[i].result # events[1].reasoning[j].result

\* the ids of the first k calls of the planner decision being carried out
FirstIds(k) == [i \in 1..k |-> plannerDecision[i].id]

\* C27: within a planner turn the calls run one after another, a call
\* starting only when every call requested before it in the turn has run and
\* left its response, and the tool messages of the turn follow its assistant
\* message in the order in which the planner requested the calls.
C27_CallsRunInRequestOrder ==
  /\ pc \in {"execute", "fetch"} =>
       /\ toolIndex \in 1..Len(plannerDecision)
       /\ Len(executedIds) >= toolIndex - 1
       /\ LastK(executedIds, toolIndex - 1) = FirstIds(toolIndex - 1)
       /\ [i \in 1..Len(toolResponses) |-> toolResponses[i].tool_call_id]
            = FirstIds(toolIndex - 1)
  /\ \A a \in Turns :
       LET calls == conversationHistory[a].tool_calls
           ran == IF variant = "route.ts" THEN Len(calls) ELSE 1
       IN /\ Len(conversationHistory) >= a + ran
          /\ \A j \in 1..ran :
               /\ conversationHistory[a + j].role = "tool"
               /\ conversationHistory[a + j].tool_call_id = calls[j].id
          /\ (a + ran + 1) \in 1..Len(conversationHistory)
               => conversationHistory[a + ran + 1].role = "assistant"

\* a turn of two calls is on the conversation, its two tool messages
\* different
C27_Witness ==
  /\ pc = "done"
  /\ \E a \in Turns :
       /\ Len(conversationHistory[a].tool_calls) = 2
       /\ Len(conversationHistory) >= a + 2
       /\ conversationHistory[a + 2].role = "tool"
       /\ conversationHistory[a + 1].content # conversationHistory[a + 2].content

\* the messages the request came with
Original == IF IsArray(request.messages) THEN request.messages.items ELSE <<>>

\* one sequence begins with the other
StartsWith(long, short) ==
  /\ Len(long) >= Len(short)
  /\ SubSeq(long, 1, Len(short)) = short

C28_Shape ==
  conversationHistory # <<>> =>
    /\ StartsWith(conversationHistory, Original)
    /\ \A i \in (Len(Original) + 1)..Len(conversationHistory) :
         /\ conversationHistory[i].role \in {"assistant", "tool"}
         /\ conversationHistory[i].role = "tool" =>
              /\ i > Len(Original) + 1
              /\ conversationHistory[i - 1].role \in {"assistant", "tool"}

C28_Step ==
  /\ StartsWith(conversationHistory', conversationHistory)
  /\ request' = request

\* C28: the conversation only grows during a request: every step leaves the
\* messages already there unchanged and in place, so it is always the
\* request's messages followed by groups of an assistant message and its tool
\* messages; the messages of the request themselves are never changed.
C28_AppendOnly == []C28_Shape /\ [][C28_Step]_vars

\* a request finished with two turns on its conversation after its own
\* messages
C28_Witness ==
  /\ pc = "done"
  /\ Original # <<>>
  /\ Cardinality(Turns) >= 2
  /\ StartsWith(conversationHistory, Original)

(***************************************************************************)
(* The provenance URL and the request of a single-request tool.            *)
(***************************************************************************)
\* the parameters a URL names, the api key apart
NamedParams(url) ==
  {pair \in {QueryPairs(url)[k] : k \in 1..Len(QueryPairs(url))} : pair.name # "apikey"}

\* C21: for every single-request tool the sourceUrl returned names the
\* endpoint and the parameter values of the request that was sent, the api
\* key apart, absent arguments taking the same defaults in both.
C21_SourceUrlNamesTheRequest ==
  (pc = "returned" /\ probe.toolName \in FetchTools) =>
    /\ Address(outcome.sourceUrl) = Address(client.url)
    /\ NamedParams(outcome.sourceUrl) = NamedParams(client.url)

(***************************************************************************)
(* The data provider client on a failed request.                           *)
(***************************************************************************)
\* the request did not bring back a body of JSON with a 2xx status
RequestFailed ==
  \/ client.response = Null
  \/ client.response.status \notin 200..299
  \/ client.response.body \notin {"rows", "empty"}

\* an object of an error text alone
ErrorShaped(result) ==
  /\ result.t = "object"
  /\ DOMAIN result.f = {"error"}
  /\ result.f.error.t = "string"
  /\ SubSeq(result.f.error.s, 1, 30) = "Failed to fetch from FMP API: "

\* C22: get never rejects: when the request is refused by the network, is
\* answered with a status outside 2xx, or its body cannot be read or parsed,
\* get resolves to an object {error: ...}, which for a status outside 2xx
\* names the status and the body.
C22_ClientResolvesToError ==
  /\ pc # "rejected"
  /\ (pc \in {"return", "returned"} /\ client # Undef) =>
       IF RequestFailed
       THEN /\ ErrorShaped(client.toolResult)
            /\ (client.response # Null /\ client.response.status \notin 200..299
                  /\ client.response.body # "unreadable") =>
                 client.toolResult.f.error.s =
                   "Failed to fetch from FMP API: Error: FMP API request failed with status "
                     \o ToString(client.response.status) \o ": " \o client.response.body
       ELSE client.toolResult.t = "array"
  /\ (pc = "returned" /\ client # Undef) => outcome.toolResult = client.toolResult

\* a request answered with status 429 came back from the executor as an
\* error object
C22_Witness ==
  /\ pc = "returned"
  /\ client # Undef
  /\ client.response # Null
  /\ client.response.status = 429
  /\ ErrorShaped(outcome.toolResult)

(***************************************************************************)
(* Requests handled at the same time.                                      *)
(***************************************************************************)
\* the message was produced for request r: one of its planner decisions, or
\* the answer to one of its calls
ProducedFor(message, r) ==
  \/ /\ message.role = "assistant"
     /\ \A i \in 1..Len(message.tool_calls) : message.tool_calls[i].id[1] = r
  \/ /\ message.role = "tool"
     /\ message.tool_call_id[1] = r

\* C23: two requests handled at the same time, their steps interleaved at
\* every await, do not interfere: the conversation of a request is its own
\* messages followed by its own turns, its tools list and step counter count
\* the calls it ran itself, and its trace holds the records of those calls
\* and no others.
C23_RequestsDoNotInterfere ==
  \A r \in Handlers :
    handlers[r].pc # "receive" =>
      LET store == stores[r]
          steps == SelectSeq(store.reasoningTrace, LAMBDA t : t.type = "tool_step")
      IN /\ StartsWith(store.conversationHistory, HandlerMessages(r))
         /\ \A i \in (Len(HandlerMessages(r)) + 1)..Len(store.conversationHistory) :
              ProducedFor(store.conversationHistory[i], r)
         /\ Cardinality({i \in 1..Len(store.conversationHistory) :
                           store.conversationHistory[i].role = "assistant"})
              = handlers[r].step
         /\ store.allToolsUsed = handlers[r].tools
         /\ store.toolStepCounter = Len(handlers[r].tools)
         /\ [i \in 1..Len(steps) |-> steps[i].toolName] = handlers[r].tools
         /\ \A i \in 1..Len(store.reasoningTrace) :
              /\ store.reasoningTrace[i].step = i
              /\ (store.reasoningTrace[i].type = "tool_step"
                    /\ store.reasoningTrace[i].result # Null)
                   => store.reasoningTrace[i].result[1] = r
         /\ handlers[r].pc = "done" => handlers[r].metadata.toolsUsed = handlers[r].tools

\* both requests finished, each having run several calls while the other
\* was between two of its awaits
C23_Witness ==
  \A r \in Handlers :
    /\ handlers[r].pc = "done"
    /\ handlers[r].overlapped
    /\ Len(handlers[r].tools) >= 2
    /\ handlers[r].step >= 2

(***************************************************************************)
(* The chat history hook (hooks/useChatHistory.ts).  hook.chatHistory and  *)
(* hook.currentChatId are the state the last render saw; hook.next holds   *)
(* the state updates queued since, which the next render commits.          *)
(* hook.storage is the localStorage item 'fin-agent-chat-history'.         *)
(***************************************************************************)
MaxOps == 3

\* localStorage.getItem: null when the key is absent, else the stored text;
\* a text is represented by whether JSON.parse accepts it and the value it
\* then yields
NoItem == [present |-> FALSE, ok |-> FALSE, json |-> Undef]
Item(ok, json) == [present |-> TRUE, ok |-> ok, json |-> json]
Corrupt == Item(FALSE, Undef)

\* JSON.stringify(value) as the text localStorage.setItem stores
JSONStringify(value) == Item(TRUE, Serialize(value))

\* messages[0]?.content.substring(0, 40) + '...'
TitleOf(messages) ==
  IF Len(messages) = 0 THEN "undefined..."
  ELSE Substring(Prop(messages[1], "content").s, 40) \o "..."

NewChat(id, messages, createdAt, updatedAt) ==
  Obj([id |-> Str(id), title |-> Str(TitleOf(messages)), messages |-> Arr(messages),
       createdAt |-> Num(createdAt), updatedAt |-> Num(updatedAt)])

Question == Obj([role |-> Str("user"), content |-> Str("How did Spotify's revenue grow over the last three years?")])
Reply == Obj([role |-> Str("assistant"), content |-> Str("Revenue grew."),
              toolUsed |-> Undef, stepCount |-> Num(2)])
MessageLists == {<<>>, <<Question>>, <<Question, Reply>>}

Older == NewChat("100", <<Question>>, 100, 100)
Newer == NewChat("200", <<Question>>, 200, 250)
Twin == NewChat("150", <<Question>>, 150, 100)

\* what the browser may hold under the key when the hook mounts
StoredItems ==
  {NoItem, Corrupt, Item(TRUE, Arr(<<>>)), Item(TRUE, Obj([version |-> Num(1)]))}
    \cup {JSONStringify(Arr(history)) :
            history \in {<<Older>>, <<Newer, Older>>, <<Older, Newer>>, <<Older, Twin>>}}

\* parsedHistory.reduce((a, b) => a.updatedAt > b.updatedAt ? a : b)
RECURSIVE LatestUpTo(_, _)
LatestUpTo(history, n) ==
  IF n = 1 THEN history[1]
  ELSE LET a == LatestUpTo(history, n - 1)
           b == history[n]
       IN IF Prop(a, "updatedAt").n > Prop(b, "updatedAt").n THEN a ELSE b

LatestChat(history) == LatestUpTo(history, Len(history))

HookInit ==
  /\ variant = "route.ts"
  /\ request = [json |-> FALSE, messages |-> Undef]
  /\ pc = "hook"
  /\ producer = Undef
  /\ service = Undef
  /\ chat = Undef
  /\ Fresh
  /\ probe = Undef
  /\ outcome = Undef
  /\ search = Undef
  /\ client = Undef
  /\ handlers = Undef
  /\ stores = Undef
  /\ \E item \in StoredItems :
       hook = [pc |-> "load", stored |-> item, storage |-> item,
               chatHistory |-> <<>>, currentChatId |-> Null,
               next |-> [chatHistory |-> <<>>, currentChatId |-> Null],
               deps |-> <<>>, ops |-> 0, now |-> 300, wiped |-> FALSE]

HookFrame ==
  UNCHANGED <<producer, service, chat, handlers, stores, client, search, rawResults, probe, outcome, pc, variant, request,
              conversationHistory, allToolsUsed, reasoningTrace, toolStepCounter, step, plannerDecision,
              toolIndex, toolArgs, toolResponses, response, events, closed, planCalls,
              synthCalls, fetches, synthInput, executedIds, exit, failure, oddities>>

\* the load effect, run once after the first render
LoadEffect ==
  /\ hook.pc = "load"
  /\ LET savedHistory == hook.storage
         loaded == /\ savedHistory.present
                   /\ savedHistory.ok
                   /\ IsArray(savedHistory.json)
                   /\ Len(savedHistory.json.items) > 0
     IN hook' = [hook EXCEPT !.pc = "save",
                   !.next = IF loaded
                            THEN [chatHistory |-> savedHistory.json.items,
                                  currentChatId |-> Prop(LatestChat(savedHistory.json.items), "id")]
                            ELSE @]
  /\ HookFrame

\* the effect's dependency array [chatHistory] compared with the one of the
\* render before
NeverChanged(before, after) == FALSE
DepsChanged(before, after) == before # after

\* the save effect, run with the chatHistory of the render that scheduled it
SaveEffect ==
  /\ hook.pc = "save"
  /\ hook' = [hook EXCEPT
       !.storage = IF Len(hook.chatHistory) > 0
                   THEN JSONStringify(Arr(hook.chatHistory))
                   ELSE NoItem,
       !.wiped = @ \/ (hook.storage.present /\ Len(hook.chatHistory) = 0),
       !.deps = hook.chatHistory,
       !.pc = IF hook.next = [chatHistory |-> hook.chatHistory,
                              currentChatId |-> hook.currentChatId]
              THEN "idle" ELSE "render"]
  /\ HookFrame

\* a render commits the queued state; the save effect follows when
\* chatHistory changed
Rerender ==
  /\ hook.pc = "render"
  /\ hook' = [hook EXCEPT
       !.chatHistory = hook.next.chatHistory,
       !.currentChatId = hook.next.currentChatId,
       !.pc = IF DepsChanged(hook.deps, hook.next.chatHistory) THEN "save" ELSE "idle"]
  /\ HookFrame

CreateNewChat ==
  /\ hook.pc = "idle"
  /\ hook.ops < MaxOps
  /\ hook' = [hook EXCEPT !.next.currentChatId = Null, !.ops = @ + 1, !.pc = "render"]
  /\ HookFrame

LoadChat ==
  /\ hook.pc = "idle"
  /\ hook.ops < MaxOps
  /\ \E i \in 1..Len(hook.chatHistory) :
       hook' = [hook EXCEPT !.next.currentChatId = Prop(hook.chatHistory[i], "id"),
                            !.ops = @ + 1, !.pc = "render"]
  /\ HookFrame

DeleteChat ==
  /\ hook.pc = "idle"
  /\ hook.ops < MaxOps
  /\ \E i \in 1..Len(hook.chatHistory) :
       LET chatId == Prop(hook.chatHistory[i], "id")
       IN hook' = [hook EXCEPT
            !.next.chatHistory = SelectSeq(hook.chatHistory, LAMBDA c : Prop(c, "id") # chatId),
            !.next.currentChatId = IF hook.currentChatId = chatId THEN Null ELSE @,
            !.ops = @ + 1, !.pc = "render"]
  /\ HookFrame

SaveMessagesToHistory ==
  /\ hook.pc = "idle"
  /\ hook.ops < MaxOps
  /\ \E messages \in MessageLists :
       LET now == hook.now
       IN hook' = [hook EXCEPT
            !.next =
              IF Truthy(hook.currentChatId)
              THEN [@ EXCEPT !.chatHistory =
                      [i \in 1..Len(hook.chatHistory) |->
                         IF Prop(hook.chatHistory[i], "id") = hook.currentChatId
                         THEN Spread(hook.chatHistory[i],
                                     [messages |-> Arr(messages), updatedAt |-> Num(now),
                                      title |-> Str(TitleOf(messages))])
                         ELSE hook.chatHistory[i]]]
              ELSE IF Len(messages) > 0
              THEN [chatHistory |-> <<NewChat(ToString(now), messages, now, now)>> \o hook.chatHistory,
                    currentChatId |-> Str(ToString(now))]
              ELSE @,
            !.now = @ + 1, !.ops = @ + 1, !.pc = "render"]
  /\ HookFrame

HookNext ==
  \/ LoadEffect
  \/ SaveEffect
  \/ Rerender
  \/ CreateNewChat
  \/ LoadChat
  \/ DeleteChat
  \/ SaveMessagesToHistory

HookSpec == HookInit /\ [][HookNext]_vars

\* the effects have run and no state update is waiting for a render
Settled == hook.pc = "idle"

\* the stored item was a non-empty history
HistoryStored ==
  /\ hook.stored.present
  /\ hook.stored.ok
  /\ IsArray(hook.stored.json)
  /\ Len(hook.stored.json.items) > 0

MaxReads == 4

Deltas == {"Spot", "ify"}

\* controller.enqueue(encoder.encode(...)): the event is queued while the
\* stream is readable, and the call throws otherwise
Enqueue(p, event) ==
  IF p.stream = "readable"
  THEN [p EXCEPT !.events = Append(@, event), !.threw = FALSE]
  ELSE [p EXCEPT !.refused = Append(@, event), !.threw = TRUE]

\* controller.close(): closes a readable stream, throws on any other
Close(p) ==
  IF p.stream = "readable"
  THEN [p EXCEPT !.stream = "closed", !.closes = @ + 1, !.closeCalls = @ + 1, !.threw = FALSE]
  ELSE [p EXCEPT !.closeCalls = @ + 1, !.threw = TRUE, !.rejected = TRUE]

\* catch (error) { enqueue(errorChunk) } finally { controller.close() }
CatchThenFinally(p, message) ==
  Close(Enqueue(p, [type |-> "error", error |-> message]))

\* the exit of start(): through finally when the try block completed, through
\* catch and finally when it threw
Leave(p, message) ==
  [(IF p.threw THEN CatchThenFinally(p, message) ELSE Close(p)) EXCEPT !.pc = "exit"]

StreamInit ==
  /\ variant = "route.ts"
  /\ request = [json |-> FALSE, messages |-> Undef]
  /\ pc = "producer"
  /\ Fresh
  /\ probe = Undef
  /\ outcome = Undef
  /\ search = Undef
  /\ client = Undef
  /\ handlers = Undef
  /\ stores = Undef
  /\ hook = Undef
  /\ service = Undef
  /\ chat = Undef
  /\ producer = Enqueue([pc |-> "iterate", stream |-> "readable", events |-> <<>>,
                         refused |-> <<>>, closes |-> 0, closeCalls |-> 0, threw |-> FALSE,
                         rejected |-> FALSE, cancelled |-> FALSE, reads |-> 0],
                        [type |-> "metadata"])

StreamFrame ==
  UNCHANGED <<service, chat, hook, handlers, stores, client, search, rawResults, probe, outcome, pc,
              variant, request, conversationHistory, allToolsUsed, reasoningTrace, toolStepCounter,
              step, plannerDecision, toolIndex, toolArgs, toolResponses, response, events, closed,
              planCalls, synthCalls, fetches, synthInput, executedIds, exit, failure, oddities>>

\* a chunk with content: enqueue, and leave through catch and finally when
\* the enqueue throws
ContentArrives ==
  /\ producer.pc = "iterate"
  /\ producer.reads < MaxReads
  /\ \E content \in Deltas :
       LET p == Enqueue([producer EXCEPT !.reads = @ + 1],
                        [type |-> "content", content |-> content])
       IN producer' = IF p.threw
                      THEN Leave(p, "Invalid state: Controller is already closed")
                      ELSE p
  /\ StreamFrame

\* a chunk without content is skipped
EmptyArrives ==
  /\ producer.pc = "iterate"
  /\ producer.reads < MaxReads
  /\ producer' = [producer EXCEPT !.reads = @ + 1]
  /\ StreamFrame

\* the synthesizer's stream ends: done is enqueued
StreamCompletes ==
  /\ producer.pc = "iterate"
  /\ producer' = Leave(Enqueue(producer, [type |-> "done"]),
                       "Invalid state: Controller is already closed")
  /\ StreamFrame

\* the synthesizer's stream throws
StreamFails ==
  /\ producer.pc = "iterate"
  /\ producer' = Leave([producer EXCEPT !.threw = TRUE], "stream failed")
  /\ StreamFrame

\* the client goes away: the response's reader cancels the stream; start()
\* is not told, the stream has no cancel()
ClientDisconnects ==
  /\ producer.stream = "readable"
  /\ producer' = [producer EXCEPT !.stream = "closed", !.cancelled = TRUE]
  /\ StreamFrame

StreamNext ==
  \/ ContentArrives
  \/ EmptyArrives
  \/ StreamCompletes
  \/ StreamFails
  \/ ClientDisconnects

StreamSpec == StreamInit /\ [][StreamNext]_vars

TerminalEvent(event) == event.type \in {"done", "error"}

\* C31: when the stream producer has exited, whether the synthesis stream
\* completed, failed or the client disconnected, the controller was closed
\* exactly once by a close() that came after the terminal event, and no
\* enqueue came after the stream was closed
C31_ClosedOnceAfterTerminal ==
  producer.pc = "exit" =>
    /\ producer.closes = 1
    /\ producer.closeCalls = 1
    /\ TerminalEvent(producer.events[Len(producer.events)])
    /\ producer.refused = <<>>

\* C32: in the metadata event stepCount is the length of toolsUsed, which is
\* the number of tool_step records of reasoning, and for every i the one
\* tool_step record with step i names the i-th tool of toolsUsed
C32_MetadataCountsAgree ==
  MetadataEmitted =>
    LET metadata == events[1]
        records == {i \in 1..Len(metadata.reasoning) : metadata.reasoning[i].type = "tool_step"}
    IN /\ metadata.stepCount = Len(metadata.toolsUsed)
       /\ Cardinality(records) = Len(metadata.toolsUsed)
       /\ \A i \in 1..Len(metadata.toolsUsed) :
            /\ Cardinality({r \in records : metadata.reasoning[r].step = i}) = 1
            /\ \A r \in records :
                 metadata.reasoning[r].step = i =>
                   metadata.reasoning[r].toolName = metadata.toolsUsed[i]

\* the event of a request that ran two different tools and whose planner
\* then stopped, so that reasoning also holds a completion record
C32_Witness ==
  /\ MetadataEmitted
  /\ Len(events[1].toolsUsed) >= 2
  /\ events[1].toolsUsed[1] # events[1].toolsUsed[2]
  /\ events[1].reasoning[Len(events[1].reasoning)].type = "completion"

\* the positions of the completion records in the trace
Completions == {i \in 1..Len(reasoningTrace) : reasoningTrace[i].type = "completion"}

\* C33: in the variants that keep a reasoning trace, the trace holds a
\* completion record exactly when the loop was left because the planner
\* asked for no tool after at least one tool call had been executed; there
\* is at most one, it is the last record, and its step is one more than the
\* step of the tool step before it.  There is none when no tool ran and none
\* when the step ceiling ended the loop.
C33_CompletionRecord ==
  variant \in Streaming =>
    /\ Cardinality(Completions) <= 1
    /\ \A c \in Completions :
         /\ c = Len(reasoningTrace)
         /\ c > 1
         /\ reasoningTrace[c - 1].type = "tool_step"
         /\ reasoningTrace[c].step = reasoningTrace[c - 1].step + 1
    /\ Completions # {} <=> (exit = "no_tools" /\ executedIds # <<>>)

\* a request whose planner asked for two calls in one turn and then stopped
C33_Witness ==
  /\ variant \in Streaming
  /\ exit = "no_tools"
  /\ Completions # {}
  /\ step = 1
  /\ Len(ToolSteps) = 2

(***************************************************************************)
(* One pass of the loop body for one call on its own: any tool, any answer *)
(* of the data provider.                                                   *)
(***************************************************************************)
StepReplies == Replies \cup {NetworkError}

StepProbes == [toolName : FetchTools \cup {"lookupInsiders"}, reply : StepReplies]

StepInit ==
  /\ variant \in Streaming
  /\ request = [json |-> FALSE, messages |-> Undef]
  /\ pc = "execute"
  /\ Fresh
  /\ probe \in StepProbes
  /\ outcome = Undef
  /\ search = Undef
  /\ client = Undef
  /\ handlers = Undef
  /\ stores = Undef
  /\ hook = Undef
  /\ producer = Undef
  /\ service = Undef
  /\ chat = Undef

\* allToolsUsed.push, toolStepCounter++, reasoningTrace.push(toolStep)
RecordStep ==
  /\ pc = "execute"
  /\ allToolsUsed' = Append(allToolsUsed, probe.toolName)
  /\ toolStepCounter' = toolStepCounter + 1
  /\ reasoningTrace' = Append(reasoningTrace, ToolStep(probe.toolName, ArgsFor(probe.toolName)))
  /\ pc' = "fetch"
  /\ UNCHANGED <<producer, service, chat, hook, handlers, stores, client, search, rawResults, probe,
                 outcome, variant, request, conversationHistory, step, plannerDecision, toolIndex,
                 toolArgs, toolResponses, response, events, closed, planCalls, synthCalls, fetches,
                 synthInput, executedIds, exit, failure, oddities>>

\* the executor switch and currentStep.result = {...}
RunStep ==
  /\ pc = "fetch"
  /\ \E ran \in {routeExecute(probe.toolName, ArgsFor(probe.toolName), probe.reply)} :
       /\ reasoningTrace' = FillResult(reasoningTrace, ran.toolResult)
       /\ rawResults' = Append(rawResults, ran.toolResult)
       /\ fetches' = fetches + ran.fetches
  /\ pc' = "ran"
  /\ UNCHANGED <<producer, service, chat, hook, handlers, stores, client, search, probe, outcome,
                 variant, request, conversationHistory, allToolsUsed, toolStepCounter, step,
                 plannerDecision, toolIndex, toolArgs, toolResponses, response, events, closed,
                 planCalls, synthCalls, synthInput, executedIds, exit, failure, oddities>>

StepNext ==
  \/ RecordStep
  \/ RunStep

StepSpec == StepInit /\ [][StepNext]_vars

\* what fmpClient.get returned inside the call that produced toolResult: the
\* getFinancialGrowth case wraps it as rawData, the other cases hand it on
ProviderResults(toolName, toolResult) ==
  IF toolName = "getFinancialGrowth" THEN {Prop(toolResult, "rawData")}
  ELSE IF toolName \in FetchTools THEN {toolResult}
  ELSE {}

\* an object with a truthy error property, as fmpClient.get returns on failure
ProviderError(result) == IsObject(result) /\ Truthy(Prop(result, "error"))

\* C34: for every tool step of the reasoning trace whose call has run,
\* result.success is true only if no data-provider call made for it returned
\* an error-shaped result, whatever the tool
C34_SuccessMeansProviderSucceeded ==
  variant \in Streaming =>
    \A i \in 1..Len(rawResults) :
      (ToolSteps[i].result # Null /\ Prop(ToolSteps[i].result, "success") = Bool(TRUE)) =>
        \A result \in ProviderResults(ToolSteps[i].toolName, rawResults[i]) :
          ~ProviderError(result)

\* C40: in part_003, the loop that runs one call per turn under a ceiling of
\* five, every conversation handed to a planner or synthesizer call pairs
\* each tool-call id of an appended assistant message with exactly one later
\* tool message of that id, also when the planner returned several calls
C40_SingleCallConversationPaired ==
  (variant = "part_003" /\ pc \in {"plan", "synthesize"}) =>
    \A a \in Turns :
      \A c \in 1..Len(conversationHistory[a].tool_calls) :
        Cardinality({t \in (a + 1)..Len(conversationHistory) :
                       /\ conversationHistory[t].role = "tool"
                       /\ conversationHistory[t].tool_call_id =
                            conversationHistory[a].tool_calls[c].id}) = 1

(***************************************************************************)
(* The client's reader of the event stream (services/chat-service.ts).     *)
(* Bytes and characters are kept apart: a byte is a one-character string,  *)
(* except the two bytes "C3" "A9" that encode the character "U+00E9"; a    *)
(* text is a sequence of characters.                                       *)
(***************************************************************************)
MaxEvents == 2

\* the characters of an ASCII string
Chars(s) == [i \in 1..Len(s) |-> SubSeq(s, i, i)]

\* TextEncoder.encode on the server
Utf8(text) ==
  LET F[i \in 0..Len(text)] ==
        IF i = 0 THEN <<>>
        ELSE F[i - 1] \o (IF text[i] = "U+00E9" THEN <<"C3", "A9">> ELSE <<text[i]>>)
  IN F[Len(text)]

\* the events the server writes and the text JSON.stringify gives each
ServerEvents ==
  {[type |-> "metadata", stepCount |-> 1],
   [type |-> "content", content |-> "U+00E9"],
   [type |-> "done"],
   [type |-> "error", error |-> "x"]}

Stringify(event) ==
  CASE event.type = "metadata" -> Chars("{\"type\":\"metadata\",\"stepCount\":1}")
    [] event.type = "content" ->
         Chars("{\"type\":\"content\",\"content\":\"") \o <<event.content>> \o Chars("\"}")
    [] event.type = "done" -> Chars("{\"type\":\"done\"}")
    [] OTHER -> Chars("{\"type\":\"error\",\"error\":\"") \o Chars(event.error) \o Chars("\"}")

\* encoder.encode(`data: ${JSON.stringify(event)}\n\n`)
Frame(event) == Utf8(Chars("data: ") \o Stringify(event) \o <<"\n", "\n">>)

\* JSON.parse(text): the event whose text it is, or a SyntaxError
ParseEvent(text) ==
  IF \E e \in ServerEvents : Stringify(e) = text
  THEN [threw |-> FALSE, value |-> CHOOSE e \in ServerEvents : Stringify(e) = text]
  ELSE [threw |-> TRUE, value |-> [type |-> "none"]]

\* decoder.decode(value, { stream: true }): a lead byte at the end of the
\* chunk is held back until its continuation arrives
Decode(held, value) ==
  LET bytes == held \o value
      cut == IF Len(bytes) > 0 /\ bytes[Len(bytes)] = "C3" THEN Len(bytes) - 1 ELSE Len(bytes)
      whole == SelectSeq(SubSeq(bytes, 1, cut), LAMBDA b : b # "A9")
  IN [text |-> [i \in 1..Len(whole) |-> IF whole[i] = "C3" THEN "U+00E9" ELSE whole[i]],
      held |-> SubSeq(bytes, cut + 1, Len(bytes))]

\* buffer.split('\n'): the pieces between the line feeds, the rest last
RECURSIVE SplitLines(_, _)
SplitLines(text, from) ==
  LET feeds == {i \in from..Len(text) : text[i] = "\n"}
  IN IF feeds = {} THEN <<SubSeq(text, from, Len(text))>>
     ELSE LET first == CHOOSE i \in feeds : \A j \in feeds : i <= j
          IN <<SubSeq(text, from, first - 1)>> \o SplitLines(text, first + 1)

\* line.startsWith('data: ')
StartsWithData(line) == Len(line) >= 6 /\ SubSeq(line, 1, 6) = Chars("data: ")

\* for (const line of lines): the events handed to onData, up to the terminal
\* event that makes the function return
RECURSIVE Deliver(_, _, _)
Deliver(lines, i, delivered) ==
  IF i > Len(lines) THEN [delivered |-> delivered, returned |-> FALSE]
  ELSE IF ~StartsWithData(lines[i]) THEN Deliver(lines, i + 1, delivered)
  ELSE LET parsed == ParseEvent(SubSeq(lines[i], 7, Len(lines[i])))
       IN IF parsed.threw THEN Deliver(lines, i + 1, delivered)
          ELSE IF parsed.value.type \in {"done", "error"}
          THEN [delivered |-> Append(delivered, parsed.value), returned |-> TRUE]
          ELSE Deliver(lines, i + 1, Append(delivered, parsed.value))

\* the lines kept for the next read dropped
NoRemainder(lines) == <<>>

\* buffer = lines.pop() || ''
Remainder(lines) == lines[Len(lines)]

\* one pass of the while loop's body on a chunk read
Feed(s, value) ==
  LET decoded == Decode(s.held, value)
      lines == SplitLines(s.buffer \o decoded.text, 1)
      out == Deliver(SubSeq(lines, 1, Len(lines) - 1), 1, s.delivered)
  IN [s EXCEPT !.held = decoded.held,
               !.buffer = Remainder(lines),
               !.delivered = out.delivered,
               !.pc = IF out.returned THEN "returned" ELSE "read"]

\* what a stream of events looks like on the wire
RECURSIVE Wire(_, _)
Wire(sent, n) == IF n = 0 THEN <<>> ELSE Wire(sent, n - 1) \o Frame(sent[n])

EventLists == UNION {[1..n -> ServerEvents] : n \in 0..MaxEvents}

\* what fetch('/api/chat') may bring: a rejection, the 500 of the route with
\* its details, the 400 whose JSON has no details, a status whose body is no
\* JSON (response.json() rejects and the fallback details are used), a
\* response without a body, and an event stream
Answers ==
  {[kind |-> k, status |-> 0, details |-> "", sent |-> <<>>] :
     k \in {"rejected", "nobody"}}
    \cup {[kind |-> "status", status |-> 500, details |-> "planner failed", sent |-> <<>>],
          [kind |-> "status", status |-> 400, details |-> "", sent |-> <<>>],
          [kind |-> "status", status |-> 502, details |-> "Unknown server error", sent |-> <<>>]}
    \cup {[kind |-> "stream", status |-> 200, details |-> "", sent |-> sent] :
            sent \in EventLists}

\* the locals of streamChatResponse before the fetch settles
NewService(answer) ==
  [pc |-> "fetch", answer |-> answer, bytes |-> Wire(answer.sent, Len(answer.sent)),
   pos |-> 0, held |-> <<>>, buffer |-> <<>>, delivered |-> <<>>, caught |-> FALSE,
   midCharacter |-> FALSE, midEvent |-> FALSE]

ServiceInit ==
  /\ variant = "route.ts"
  /\ request = [json |-> FALSE, messages |-> Undef]
  /\ pc = "service"
  /\ Fresh
  /\ probe = Undef
  /\ outcome = Undef
  /\ search = Undef
  /\ client = Undef
  /\ handlers = Undef
  /\ stores = Undef
  /\ hook = Undef
  /\ producer = Undef
  /\ chat = Undef
  /\ \E answer \in Answers : service = NewService(answer)

ServiceFrame ==
  UNCHANGED <<producer, chat, hook, handlers, stores, client, search, rawResults, probe, outcome, pc,
              variant, request, conversationHistory, allToolsUsed, reasoningTrace, toolStepCounter,
              step, plannerDecision, toolIndex, toolArgs, toolResponses, response, events, closed,
              planCalls, synthCalls, fetches, synthInput, executedIds, exit, failure, oddities>>

\* catch (error) { onData({ type: 'error', error: errorMessage }) }
CaughtError(s, message) ==
  [s EXCEPT !.delivered = Append(@, [type |-> "error", error |-> message]),
            !.caught = TRUE,
            !.pc = "returned"]

\* the fetch settles: lines 20-32
FetchSettles ==
  /\ service.pc = "fetch"
  /\ service' =
       CASE service.answer.kind = "rejected" -> CaughtError(service, "Failed to fetch")
         [] service.answer.kind = "status" ->
              CaughtError(service,
                          IF service.answer.details # "" THEN service.answer.details
                          ELSE "Request failed with status " \o ToString(service.answer.status))
         [] service.answer.kind = "nobody" ->
              CaughtError(service, "No response body reader available")
         [] OTHER -> [service EXCEPT !.pc = "read"]
  /\ ServiceFrame

\* reader.read() resolves with the next bytes, however many the network
\* delivers at once
ReadChunk ==
  /\ service.pc = "read"
  /\ \E n \in 1..(Len(service.bytes) - service.pos) :
       \E fed \in {Feed(service, SubSeq(service.bytes, service.pos + 1, service.pos + n))} :
         service' = [fed EXCEPT !.pos = @ + n,
                                !.midCharacter = @ \/ fed.held # <<>>,
                                !.midEvent = @ \/ (fed.buffer # <<>> /\ fed.pc = "read")]
  /\ ServiceFrame

\* reader.read() resolves with done: break, and the function returns
ReadDone ==
  /\ service.pc = "read"
  /\ service.pos = Len(service.bytes)
  /\ service' = [service EXCEPT !.pc = "returned"]
  /\ ServiceFrame

\* reader.read() rejects: the connection broke, wherever the stream stood
ReadFails ==
  /\ service.pc = "read"
  /\ service' = CaughtError(service, "network error")
  /\ ServiceFrame

ServiceNext ==
  \/ FetchSettles
  \/ ReadChunk
  \/ ReadDone
  \/ ReadFails

ServiceSpec == ServiceInit /\ [][ServiceNext]_vars

\* the bytes read so far, read as one chunk
ReadAtOnce ==
  Feed([NewService(service.answer) EXCEPT !.pc = "read"], SubSeq(service.bytes, 1, service.pos))

\* C35: whatever the chunks in which the bytes of a stream of 'data: <json>'
\* events arrived, split between events, inside an event or inside a
\* character, the objects handed to onData are those handed over when the
\* same bytes arrive as one chunk
C35_ChunkingInsensitive ==
  (service.answer.kind = "stream" /\ service.pos > 0 /\ ~service.caught) =>
    service.delivered = ReadAtOnce.delivered

\* a content event and done were delivered from a stream read in chunks that
\* ended inside an event and inside the two-byte character
C35_Witness ==
  /\ service.pc = "returned"
  /\ service.midCharacter
  /\ service.midEvent
  /\ service.delivered = <<[type |-> "content", content |-> "U+00E9"], [type |-> "done"]>>

\* the positions of the terminal events among those handed to onData
TerminalsDelivered ==
  {i \in 1..Len(service.delivered) : service.delivered[i].type \in {"done", "error"}}

\* C36: when streamChatResponse has returned, on whichever path (fetch
\* rejected, status outside 2xx, no body, stream read to a terminal event,
\* stream ended or broken before one), its callback received exactly one
\* terminal event and nothing after it
C36_OneTerminalEvent ==
  service.pc = "returned" => TerminalsDelivered = {Len(service.delivered)}

(***************************************************************************)
(* The chat page: useChat (hooks/useChat.ts), useChatHistory and the       *)
(* effect of ChatInterface that reloads the messages of the current chat.  *)
(* chat.messages, input, isLoading, chatHistory and currentChatId are the  *)
(* state of the last render, which the handlers and timers created by it   *)
(* see; chat.queue holds the state updates requested since, in order.  A   *)
(* message carries the number of the request whose handleSubmit created    *)
(* it (0 for any other message) so that it can be told apart.              *)
(***************************************************************************)
MaxSubmits == 2
MaxDeltas == 1
MaxClicks == 1
MaxPending == 2

NoChat == ""

Update(target, op, value) == [target |-> target, op |-> op, value |-> value]

UserText(text) == [role |-> "user", content |-> text, meta |-> FALSE, req |-> 0]
AssistantShell(n) == [role |-> "assistant", content |-> "", meta |-> FALSE, req |-> n]

\* the chat already in the history when the page is opened
SavedMessages ==
  <<UserText("What is Spotify's revenue?"),
    [role |-> "assistant", content |-> "It was 13B.", meta |-> FALSE, req |-> 0]>>
SavedChat == [id |-> "c1", messages |-> SavedMessages]

\* the updater functions handed to setMessages by the stream callback, and a
\* plain value; failed tells that the updater threw
ApplyToMessages(messages, update) ==
  LET last == Len(messages)
  IN CASE update.op = "set" -> [messages |-> update.value, failed |-> FALSE]
       [] update.op = "append" ->
            [messages |-> IF last = 0 THEN messages
                          ELSE [messages EXCEPT ![last].content = @ \o update.value],
             failed |-> FALSE]
       [] update.op = "merge" ->
            [messages |-> IF last = 0 THEN messages
                          ELSE [messages EXCEPT ![last].meta = TRUE],
             failed |-> FALSE]
       [] OTHER ->
            [messages |-> IF last = 0 THEN messages
                          ELSE [messages EXCEPT ![last].content = "Error: " \o update.value],
             failed |-> last = 0]

\* the updater functions handed to setChatHistory
ApplyToHistory(history, update) ==
  CASE update.op = "prepend" -> <<update.value>> \o history
    [] update.op = "store" ->
         [i \in 1..Len(history) |->
            IF history[i].id = update.value.id
            THEN [history[i] EXCEPT !.messages = update.value.messages]
            ELSE history[i]]
    [] OTHER -> SelectSeq(history, LAMBDA c : c.id # update.value)

\* the state after the first n queued updates
RECURSIVE Applied(_, _, _)
Applied(state, queue, n) ==
  IF n = 0 THEN state
  ELSE LET before == Applied(state, queue, n - 1)
           update == queue[n]
       IN CASE update.target = "messages" ->
                 LET result == ApplyToMessages(before.messages, update)
                 IN [before EXCEPT !.messages = result.messages,
                                   !.crashed = @ \/ result.failed]
            [] update.target = "chatHistory" ->
                 [before EXCEPT !.chatHistory = ApplyToHistory(@, update)]
            [] update.target = "currentChatId" -> [before EXCEPT !.currentChatId = update.value]
            [] update.target = "input" -> [before EXCEPT !.input = update.value]
            [] OTHER -> [before EXCEPT !.isLoading = update.value]

\* getCurrentChatMessages()
CurrentChatMessages(history, currentChatId) ==
  IF currentChatId = NoChat THEN <<>>
  ELSE IF \E i \in 1..Len(history) : history[i].id = currentChatId
  THEN history[CHOOSE i \in 1..Len(history) :
                 /\ history[i].id = currentChatId
                 /\ \A j \in 1..(i - 1) : history[j].id # currentChatId].messages
  ELSE <<>>

\* saveMessagesToHistory(messages) as created by a render with currentChatId
SaveUpdates(messages, currentChatId, newId) ==
  IF currentChatId # NoChat
  THEN <<Update("chatHistory", "store", [id |-> currentChatId, messages |-> messages])>>
  ELSE IF Len(messages) > 0
  THEN <<Update("chatHistory", "prepend", [id |-> newId, messages |-> messages]),
         Update("currentChatId", "set", newId)>>
  ELSE <<>>

\* the page as first rendered, on a new chat or on the saved one
NewPage(currentChatId) ==
  LET messages == CurrentChatMessages(<<SavedChat>>, currentChatId)
  IN [messages |-> messages, input |-> "And its margin?", isLoading |-> FALSE,
      chatHistory |-> <<SavedChat>>, currentChatId |-> currentChatId,
      queue |-> <<>>, crashed |-> FALSE,
      timer |-> [armed |-> TRUE, messages |-> messages, currentChatId |-> currentChatId],
      requests |-> <<>>, clicks |-> 0, created |-> 0, pending |-> 0]

ChatInit ==
  /\ variant = "route.ts"
  /\ request = [json |-> FALSE, messages |-> Undef]
  /\ pc = "page"
  /\ Fresh
  /\ probe = Undef
  /\ outcome = Undef
  /\ search = Undef
  /\ client = Undef
  /\ handlers = Undef
  /\ stores = Undef
  /\ hook = Undef
  /\ producer = Undef
  /\ service = Undef
  /\ \E currentChatId \in {NoChat, SavedChat.id} : chat = NewPage(currentChatId)

ChatFrame ==
  UNCHANGED <<producer, service, hook, handlers, stores, client, search, rawResults, probe, outcome,
              pc, variant, request, conversationHistory, allToolsUsed, reasoningTrace,
              toolStepCounter, step, plannerDecision, toolIndex, toolArgs, toolResponses, response,
              events, closed, planCalls, synthCalls, fetches, synthInput, executedIds, exit,
              failure, oddities>>

\* a handler or callback has run since the last render and asked for updates
Queued(updates) == [chat EXCEPT !.queue = @ \o updates, !.pending = @ + 1]

\* the page is up and few enough callbacks have run since the last render
Idle == ~chat.crashed /\ chat.pending < MaxPending

\* handleSubmit as created by the last render, up to its await
HandleSubmit ==
  /\ Idle
  /\ Len(chat.requests) < MaxSubmits
  /\ IF chat.input = "" \/ chat.isLoading
     THEN chat' = chat
     ELSE LET n == Len(chat.requests) + 1
              messagesToSubmit == Append(chat.messages, UserText(chat.input))
          IN chat' = [Queued(<<Update("messages", "set",
                                      Append(messagesToSubmit, AssistantShell(n))),
                               Update("input", "set", ""),
                               Update("isLoading", "set", TRUE)>>)
                        EXCEPT !.requests = Append(@, [received |-> "", events |-> 0,
                                                       terminal |-> "none"])]
  /\ ChatFrame

\* the callback handed to streamChatResponse receives the next event of a
\* request: metadata, then the content deltas, then done, or error wherever
\* the stream stands
OnData ==
  /\ Idle
  /\ \E r \in 1..Len(chat.requests) :
       /\ chat.requests[r].terminal = "none"
       /\ \/ /\ chat.requests[r].events = 0
             /\ chat' = [Queued(<<Update("messages", "merge", "")>>)
                           EXCEPT !.requests[r].events = 1]
          \/ /\ chat.requests[r].events \in 1..MaxDeltas
             /\ \E delta \in {IF chat.requests[r].events = 1 THEN "12" ELSE "%"} :
                  chat' = [Queued(<<Update("messages", "append", delta)>>)
                             EXCEPT !.requests[r].events = @ + 1,
                                    !.requests[r].received = @ \o delta]
          \/ /\ chat.requests[r].events = MaxDeltas + 1
             /\ chat' = [Queued(<<Update("isLoading", "set", FALSE)>>)
                           EXCEPT !.requests[r].terminal = "done"]
          \/ chat' = [Queued(<<Update("messages", "fail", "stream failed"),
                               Update("isLoading", "set", FALSE)>>)
                        EXCEPT !.requests[r].terminal = "error"]
  /\ ChatFrame

\* the debounce timer set by the last run of the first effect of useChat
TimerFires ==
  /\ Idle
  /\ chat.timer.armed
  /\ LET updates == IF Len(chat.timer.messages) > 0
                    THEN SaveUpdates(chat.timer.messages, chat.timer.currentChatId,
                                     "n" \o ToString(chat.created + 1))
                    ELSE <<>>
     IN chat' = [Queued(updates) EXCEPT
                   !.timer.armed = FALSE,
                   !.created = IF \E i \in 1..Len(updates) : updates[i].op = "prepend"
                               THEN @ + 1 ELSE @]
  /\ ChatFrame

\* the sidebar: loadChat, createNewChat, deleteChat as created by the last
\* render
LoadSaved ==
  /\ Idle
  /\ chat.clicks < MaxClicks
  /\ \E i \in 1..Len(chat.chatHistory) :
       chat' = [Queued(<<Update("currentChatId", "set", chat.chatHistory[i].id)>>)
                  EXCEPT !.clicks = @ + 1]
  /\ ChatFrame

StartNewChat ==
  /\ Idle
  /\ chat.clicks < MaxClicks
  /\ chat' = [Queued(<<Update("currentChatId", "set", NoChat)>>) EXCEPT !.clicks = @ + 1]
  /\ ChatFrame

DeleteSaved ==
  /\ Idle
  /\ chat.clicks < MaxClicks
  /\ \E i \in 1..Len(chat.chatHistory) :
       LET chatId == chat.chatHistory[i].id
       IN chat' = [Queued(<<Update("chatHistory", "remove", chatId)>>
                            \o IF chat.currentChatId = chatId
                               THEN <<Update("currentChatId", "set", NoChat)>>
                               ELSE <<>>)
                     EXCEPT !.clicks = @ + 1]
  /\ ChatFrame

\* a render commits the queued updates and its effects run: the debounce
\* effect of useChat (deps messages, saveMessagesToHistory) swaps the timer,
\* the effect of ChatInterface (deps currentChatId, getCurrentChatMessages)
\* asks for the messages of the current chat
RenderPage ==
  /\ ~chat.crashed
  /\ chat.queue # <<>>
  /\ \E next \in {Applied(chat, chat.queue, Len(chat.queue))} :
       LET resave == next.messages # chat.messages \/ next.currentChatId # chat.currentChatId
           reload == next.currentChatId # chat.currentChatId
                       \/ next.chatHistory # chat.chatHistory
       IN chat' = [next EXCEPT
            !.timer = IF resave
                      THEN [armed |-> TRUE, messages |-> next.messages,
                            currentChatId |-> next.currentChatId]
                      ELSE @,
            !.queue = IF reload /\ ~next.crashed
                      THEN <<Update("messages", "set",
                                    CurrentChatMessages(next.chatHistory, next.currentChatId))>>
                      ELSE <<>>,
            !.pending = 0]
  /\ ChatFrame

ChatNext ==
  \/ HandleSubmit
  \/ OnData
  \/ TimerFires
  \/ LoadSaved
  \/ StartNewChat
  \/ DeleteSaved
  \/ RenderPage

ChatSpec == ChatInit /\ [][ChatNext]_vars

\* the requests that have not received their terminal event
InFlight == {r \in 1..Len(chat.requests) : chat.requests[r].terminal = "none"}

\* C37: useChat never has two requests in flight, whatever the order of
\* submits and renders
C37_OneRequestInFlight == Cardinality(InFlight) <= 1

\* the messages on the page and in every chat of the history
AllMessages ==
  {chat.messages[i] : i \in 1..Len(chat.messages)}
    \cup UNION {{chat.chatHistory[c].messages[i] : i \in 1..Len(chat.chatHistory[c].messages)} :
                  c \in 1..Len(chat.chatHistory)}

\* C38: once a response has completed with done and everything is rendered,
\* the assistant message created for the request holds the content deltas
\* received, in arrival order, whatever the order of delta callbacks, the
\* debounced save and the reload of the messages from the history (one
\* request, no use of the sidebar)
C38_DoneContentIsDeltas ==
  \A r \in 1..Len(chat.requests) :
    (/\ chat.requests[r].terminal = "done"
     /\ Len(chat.requests) = 1
     /\ chat.clicks = 0
     /\ chat.queue = <<>>)
      => \E i \in 1..Len(chat.messages) :
           /\ chat.messages[i].req = r
           /\ chat.messages[i].content = chat.requests[r].received

\* C39: stream events only modify the assistant message created for their
\* request: whatever the user does in the sidebar while a response streams,
\* every message that no request created, on the page or saved in a chat of
\* the history, is as it was written
C39_OtherMessagesUntouched ==
  \A m \in AllMessages :
    m.req = 0 => m \in {SavedMessages[1], SavedMessages[2], UserText("And its margin?")}

====
